---- MODULE Spec2Model ----
(***************************************************************************)
(* Model of the time tracking core of telegram-hojre-bot:                  *)
(*   TimeTrackingService.checkIn / checkOut / updateWorkSession            *)
(*   (src/src/services/time-tracking.service.ts)                           *)
(* over the time_entries ledger and the work_sessions aggregate table.     *)
(*                                                                         *)
(* Instants are minutes on the UTC axis.  Every `await` of a repository    *)
(* call is one atomic step of the calling request, so that two requests    *)
(* interleave exactly at the points where the event loop can switch.       *)
(* totalHours is kept in hundredths of an hour (the decimal(10,2) column). *)
(***************************************************************************)
EXTENDS Integers, Sequences, FiniteSets, TLC

\* ---------------------------------------------------------------- bounds
MaxEntries == 2          \* cap on the number of rows of time_entries
MaxDay == 1              \* local days 0..MaxDay are offered as inputs

\* ------------------------------------------------------------- constants
MinutesPerDay == 1440
DefaultTimezone == "Asia/Tehran"

TelegramIds == {1}
Procs == {"r1", "r2"}
Days == 0..MaxDay
\* local wall-clock times offered as inputs: 00:00, 09:00, 17:30
DayOffsets == {0, 540, 1050}

CHECK_IN == "check_in"
CHECK_OUT == "check_out"

\* ------------------------------------------------------- time arithmetic
\* UTC offset of a zone in minutes (moment-timezone's zone table).
TzOffset(tz) == IF tz = "Asia/Tehran" THEN 210 ELSE 0

\* moment.tz(timestamp, tz).format('YYYY-MM-DD'): the local calendar date.
LocalDate(t, tz) == (t + TzOffset(tz)) \div MinutesPerDay

\* moment.tz(date, tz).startOf('day').toDate(): the instant of local midnight.
StartOfDay(date, tz) == date * MinutesPerDay - TzOffset(tz)

\* moment.tz(dateStr, tz).hour(hh).minute(mm).second(0).millisecond(0).toDate()
BuildInstant(date, minuteOfDay, tz) == StartOfDay(date, tz) + minuteOfDay

\* instants offered as call arguments: every offered wall-clock time of
\* day 0, and local midnight of every day
Instants ==
  {BuildInstant(0, o, DefaultTimezone) : o \in DayOffsets} \cup
  {BuildInstant(d, 0, DefaultTimezone) : d \in Days}

\* parseFloat(duration.asHours().toFixed(2)), in hundredths of an hour.
Hours(minutes) ==
  IF minutes >= 0 THEN (minutes * 100 + 30) \div 60
                  ELSE 0 - (((0 - minutes) * 100 + 30) \div 60)

\* ------------------------------------------------------------------ state
VARIABLES
  users,         \* users table: telegramId -> {} or {row}
  timeEntries,   \* time_entries table, in insertion order
  workSessions,  \* work_sessions table, in insertion order (index = id)
  now,           \* the wall clock (new Date(), moment())
  pc,            \* per request: position in checkIn/checkOut
  req,           \* per request: the arguments of the call, and (history)
                 \* whether the user's local day had an open check-in then
  loc,           \* per request: local variables (user zone, today, workSession)
  res            \* per request: the TimeTrackingResult returned

vars == <<users, timeEntries, workSessions, now, pc, req, loc, res>>

NoReq == [kind |-> "none", telegramId |-> 0, timestamp |-> 0, openAtCall |-> FALSE]
NoLoc == [timezone |-> "", today |-> 0, ws |-> {}]
NoRes == [kind |-> "none", totalHours |-> 0]

Result(kind) == [kind |-> kind, totalHours |-> 0]

\* ------------------------------------------------------ repository access
\* userService.findByTelegramId
FindByTelegramIdMutant(tid) ==
  {[telegramId |-> tid, timezone |-> DefaultTimezone, isActive |-> TRUE]}
FindByTelegramId(tid) == users[tid]

\* timeEntryRepository.find({ where: { telegramId, timestamp: t } }):
\* the where clause is an equality on the timestamp column.
FindEntriesMutant(tid, t) ==
  SelectSeq(timeEntries, LAMBDA e : e.timestamp = t)
FindEntries(tid, t) ==
  SelectSeq(timeEntries, LAMBDA e : e.telegramId = tid /\ e.timestamp = t)

OfType(entries, type) == SelectSeq(entries, LAMBDA e : e.type = type)

\* workSessionRepository.findOne({ where: { telegramId, date } })
SessionIds(tid, date) ==
  {i \in 1..Len(workSessions) :
     workSessions[i].telegramId = tid /\ workSessions[i].date = date}

FindSession(tid, date) ==
  IF SessionIds(tid, date) = {} THEN {}
  ELSE LET i == CHOOSE j \in SessionIds(tid, date) :
                  \A k \in SessionIds(tid, date) : j <= k
       IN {[workSessions[i] EXCEPT !.id = i]}

\* @Index(['telegramId', 'date'], { unique: true }) on work_sessions
UniqueIndexOkMutant(tid, date) == TRUE
UniqueIndexOk(tid, date) == SessionIds(tid, date) = {}

\* ------------------------------------------------------------ validation
\* checkIn lines 66-77 on the rows returned by the find
CheckInDecision(todayEntries) ==
  IF Len(OfType(todayEntries, CHECK_IN)) > Len(OfType(todayEntries, CHECK_OUT))
  THEN "AlreadyCheckedIn" ELSE "ok"

\* checkOut lines 138-153 on the rows returned by the find
CheckOutDecisionMutant(todayEntries) ==
  IF Len(OfType(todayEntries, CHECK_OUT)) >= Len(OfType(todayEntries, CHECK_IN))
  THEN "AlreadyCheckedOut" ELSE "ok"
CheckOutDecision(todayEntries) ==
  IF Len(OfType(todayEntries, CHECK_IN)) = 0 THEN "NoOpenCheckIn"
  ELSE IF Len(OfType(todayEntries, CHECK_OUT)) >= Len(OfType(todayEntries, CHECK_IN))
  THEN "AlreadyCheckedOut" ELSE "ok"

\* ------------------------------------------------------ updateWorkSession
\* workSessionRepository.create({...}) of lines 250-256
NewSessionMutant(tid, date) ==
  [id |-> 0, telegramId |-> tid, date |-> date + 1, checkIn |-> {}, checkOut |-> {},
   totalHours |-> 0, isComplete |-> FALSE]
NewSession(tid, date) ==
  [id |-> 0, telegramId |-> tid, date |-> date, checkIn |-> {}, checkOut |-> {},
   totalHours |-> 0, isComplete |-> FALSE]

\* lines 271-292: the fields computed from the rows found and the clock
Recompute(w, entries, clock) ==
  LET checkIns == OfType(entries, CHECK_IN)
      checkOuts == OfType(entries, CHECK_OUT)
      w1 == IF Len(checkIns) > 0
            THEN [w EXCEPT !.checkIn = {checkIns[1].timestamp}] ELSE w
      w2 == IF Len(checkOuts) > 0
            THEN [w1 EXCEPT !.checkOut = {checkOuts[Len(checkOuts)].timestamp}]
            ELSE w1
  IN IF w2.checkIn # {} /\ w2.checkOut # {}
     THEN LET ci == CHOOSE t \in w2.checkIn : TRUE
              co == CHOOSE t \in w2.checkOut : TRUE
          IN [w2 EXCEPT !.totalHours = Hours(co - ci), !.isComplete = TRUE]
     ELSE IF w2.checkIn # {}
     THEN LET ci == CHOOSE t \in w2.checkIn : TRUE
          IN [w2 EXCEPT !.totalHours = Hours(clock - ci), !.isComplete = FALSE]
     ELSE w2

\* ------------------------------------------------ the ledger of one day
\* The events of a user whose instant falls in local day `date` of zone tz,
\* in insertion order.
DayEntries(tid, date, tz) ==
  SelectSeq(timeEntries,
            LAMBDA e : e.telegramId = tid /\ LocalDate(e.timestamp, tz) = date)

RECURSIVE InsertByInstant(_, _)
InsertByInstant(sorted, e) ==
  IF sorted = <<>> THEN <<e>>
  ELSE IF Head(sorted).timestamp > e.timestamp THEN <<e>> \o sorted
  ELSE <<Head(sorted)>> \o InsertByInstant(Tail(sorted), e)

\* entries sorted by instant, equal instants in insertion order
RECURSIVE SortByInstant(_)
SortByInstant(entries) ==
  IF entries = <<>> THEN <<>>
  ELSE InsertByInstant(SortByInstant(SubSeq(entries, 1, Len(entries) - 1)),
                       entries[Len(entries)])

SortedDay(tid, date, tz) == SortByInstant(DayEntries(tid, date, tz))

\* check_in, check_out, check_in, ... beginning with a check_in
Alternates(sorted) ==
  \A i \in 1..Len(sorted) :
     sorted[i].type = (IF i % 2 = 1 THEN CHECK_IN ELSE CHECK_OUT)

HasOpenCheckIn(tid, date, tz) ==
  Len(OfType(DayEntries(tid, date, tz), CHECK_IN)) >
  Len(OfType(DayEntries(tid, date, tz), CHECK_OUT))

\* sum of (check_out - check_in) over the closed pairs of an alternating day
RECURSIVE ClosedPairHours(_)
ClosedPairHours(sorted) ==
  IF Len(sorted) < 2 THEN 0
  ELSE Hours(sorted[2].timestamp - sorted[1].timestamp)
       + ClosedPairHours(SubSeq(sorted, 3, Len(sorted)))

Quiescent == \A p \in Procs : pc[p] \in {"idle", "done"}

\* ------------------------------------------------------------------- Init
Init ==
  /\ users = [t \in TelegramIds |-> {}]
  /\ timeEntries = <<>>
  /\ workSessions = <<>>
  /\ now = BuildInstant(0, 0, DefaultTimezone)
  /\ pc = [p \in Procs |-> "idle"]
  /\ req = [p \in Procs |-> NoReq]
  /\ loc = [p \in Procs |-> NoLoc]
  /\ res = [p \in Procs |-> NoRes]

\* ---------------------------------------------------------------- actions
\* readings of the wall clock: the offered wall-clock times of day 0
ClockInstants == {BuildInstant(0, o, DefaultTimezone) : o \in DayOffsets}

\* The wall clock advances.
Tick ==
  /\ \E t \in ClockInstants : t > now /\ now' = t
  /\ UNCHANGED <<users, timeEntries, workSessions, pc, req, loc, res>>

\* UserService.createOrUpdateUser (the /start command)
CreateOrUpdateUser(tid) ==
  /\ users' = [users EXCEPT ![tid] =
                 IF users[tid] = {}
                 THEN {[telegramId |-> tid, timezone |-> DefaultTimezone,
                        isActive |-> TRUE]}
                 ELSE users[tid]]
  /\ users' # users
  /\ UNCHANGED <<timeEntries, workSessions, now, pc, req, loc, res>>

\* Number of requests that have passed validation and will insert a time entry.
Pending == Cardinality({p \in Procs : pc[p] = "saveEntry"})

\* The ledger is capped: a request passes validation only while there is room
\* for the row it is going to insert.
HasRoom == Len(timeEntries) + Pending < MaxEntries

\* The head of checkIn / checkOut up to the result of its first await (lines
\* 36-45, 115-124): the user lookup, then today in the user's zone.
LookupUser(p, kind, tid, ts) ==
  /\ LET user == FindByTelegramId(tid) IN
       IF user = {}
       THEN /\ pc' = [pc EXCEPT ![p] = "done"]
            /\ res' = [res EXCEPT ![p] = Result("UserNotFound")]
            /\ req' = [req EXCEPT ![p] = [kind |-> kind, telegramId |-> tid,
                                          timestamp |-> ts, openAtCall |-> FALSE]]
            /\ loc' = loc
       ELSE LET u == CHOOSE x \in user : TRUE IN
            /\ pc' = [pc EXCEPT ![p] = "validate"]
            /\ req' = [req EXCEPT ![p] =
                 [kind |-> kind, telegramId |-> tid, timestamp |-> ts,
                  openAtCall |->
                    HasOpenCheckIn(tid, LocalDate(ts, u.timezone), u.timezone)]]
            /\ loc' = [loc EXCEPT ![p] =
                 [timezone |-> u.timezone, today |-> LocalDate(ts, u.timezone),
                  ws |-> {}]]
            /\ res' = res
  /\ UNCHANGED <<users, timeEntries, workSessions, now>>

\* TimeTrackingService.checkIn(telegramId, timestamp) is called
CheckIn(p, tid, ts) ==
  /\ pc[p] = "idle"
  /\ LookupUser(p, CHECK_IN, tid, ts)

\* TimeTrackingService.checkOut(telegramId, timestamp) is called
CheckOut(p, tid, ts) ==
  /\ pc[p] = "idle"
  /\ LookupUser(p, CHECK_OUT, tid, ts)

Reject(p, kind) ==
  /\ pc' = [pc EXCEPT ![p] = "done"]
  /\ res' = [res EXCEPT ![p] = Result(kind)]
  /\ loc' = [loc EXCEPT ![p] = NoLoc]

\* checkIn lines 47-77: find today's entries and validate (the result of the
\* first query, existingCheckIn of lines 48-55, is never used)
CheckInValidate(p) ==
  /\ pc[p] = "validate" /\ req[p].kind = CHECK_IN
  /\ LET todayEntries ==
           FindEntries(req[p].telegramId, StartOfDay(loc[p].today, loc[p].timezone))
         d == CheckInDecision(todayEntries)
     IN IF d = "ok"
        THEN /\ HasRoom
             /\ pc' = [pc EXCEPT ![p] = "saveEntry"]
             /\ UNCHANGED <<res, loc>>
        ELSE Reject(p, d)
  /\ UNCHANGED <<users, timeEntries, workSessions, now, req>>

\* checkOut lines 130-153: find the entries and validate
CheckOutValidate(p) ==
  /\ pc[p] = "validate" /\ req[p].kind = CHECK_OUT
  /\ LET todayEntries == FindEntries(req[p].telegramId, req[p].timestamp)
         d == CheckOutDecision(todayEntries)
     IN IF d = "ok"
        THEN /\ HasRoom
             /\ pc' = [pc EXCEPT ![p] = "saveEntry"]
             /\ UNCHANGED <<res, loc>>
        ELSE Reject(p, d)
  /\ UNCHANGED <<users, timeEntries, workSessions, now, req>>

\* timeEntryRepository.save(entry) of a newly created entry: an INSERT
InsertEntryMutant(entries, e) ==
  IF entries = <<>> THEN <<e>> ELSE [entries EXCEPT ![Len(entries)] = e]
InsertEntry(entries, e) == Append(entries, e)

\* lines 80-88 / 156-164: timeEntryRepository.save(entry)
SaveEntryMutant(p) ==
  /\ pc[p] = "saveEntry"
  /\ timeEntries' = InsertEntry(timeEntries,
        [telegramId |-> req[p].telegramId, type |-> req[p].kind,
         timestamp |-> now])
  /\ pc' = [pc EXCEPT ![p] = "findSession"]
  /\ UNCHANGED <<users, workSessions, now, req, loc, res>>
SaveEntry(p) ==
  /\ pc[p] = "saveEntry"
  /\ timeEntries' = InsertEntry(timeEntries,
        [telegramId |-> req[p].telegramId, type |-> req[p].kind,
         timestamp |-> req[p].timestamp])
  /\ pc' = [pc EXCEPT ![p] = "findSession"]
  /\ UNCHANGED <<users, workSessions, now, req, loc, res>>

\* updateWorkSession lines 245-257: findOne, else create
FindOrCreateSession(p) ==
  /\ pc[p] = "findSession"
  /\ LET found == FindSession(req[p].telegramId, loc[p].today)
         w == IF found = {} THEN NewSession(req[p].telegramId, loc[p].today)
              ELSE CHOOSE x \in found : TRUE
     IN loc' = [loc EXCEPT ![p].ws = {w}]
  /\ pc' = [pc EXCEPT ![p] = "findEntries"]
  /\ UNCHANGED <<users, timeEntries, workSessions, now, req, res>>

\* updateWorkSession lines 260-292: find the day's entries, compute the fields
RecomputeSession(p) ==
  /\ pc[p] = "findEntries"
  /\ LET w == CHOOSE x \in loc[p].ws : TRUE
         entries == FindEntries(req[p].telegramId,
                                StartOfDay(loc[p].today, loc[p].timezone))
     IN loc' = [loc EXCEPT ![p].ws = {Recompute(w, entries, now)}]
  /\ pc' = [pc EXCEPT ![p] = "saveSession"]
  /\ UNCHANGED <<users, timeEntries, workSessions, now, req, res>>

\* updateWorkSession line 294 and the return of checkIn / checkOut
\* (lines 93-105, 169-182): a rejected insert throws into the catch block.
SaveSession(p) ==
  /\ pc[p] = "saveSession"
  /\ LET w == CHOOSE x \in loc[p].ws : TRUE IN
       IF w.id = 0
       THEN IF UniqueIndexOk(w.telegramId, w.date)
            THEN /\ workSessions' =
                      Append(workSessions, [w EXCEPT !.id = Len(workSessions) + 1])
                 /\ res' = [res EXCEPT ![p] =
                      [kind |-> "Success",
                       totalHours |-> IF req[p].kind = CHECK_OUT THEN w.totalHours ELSE 0]]
            ELSE /\ workSessions' = workSessions
                 /\ res' = [res EXCEPT ![p] = Result("Error")]
       ELSE /\ workSessions' = [workSessions EXCEPT ![w.id] = w]
            /\ res' = [res EXCEPT ![p] =
                 [kind |-> "Success",
                  totalHours |-> IF req[p].kind = CHECK_OUT THEN w.totalHours ELSE 0]]
  /\ pc' = [pc EXCEPT ![p] = "done"]
  /\ loc' = [loc EXCEPT ![p] = NoLoc]
  /\ UNCHANGED <<users, timeEntries, now, req>>

\* The caller has consumed the result; the request slot is free again.
Return(p) ==
  /\ pc[p] = "done"
  /\ pc' = [pc EXCEPT ![p] = "idle"]
  /\ req' = [req EXCEPT ![p] = NoReq]
  /\ res' = [res EXCEPT ![p] = NoRes]
  /\ UNCHANGED <<users, timeEntries, workSessions, now, loc>>

Next ==
  \/ Tick
  \/ \E tid \in TelegramIds : CreateOrUpdateUser(tid)
  \/ \E p \in Procs, tid \in TelegramIds, ts \in Instants : CheckIn(p, tid, ts)
  \/ \E p \in Procs, tid \in TelegramIds, ts \in Instants : CheckOut(p, tid, ts)
  \/ \E p \in Procs : CheckInValidate(p)
  \/ \E p \in Procs : CheckOutValidate(p)
  \/ \E p \in Procs : SaveEntry(p)
  \/ \E p \in Procs : FindOrCreateSession(p)
  \/ \E p \in Procs : RecomputeSession(p)
  \/ \E p \in Procs : SaveSession(p)
  \/ \E p \in Procs : Return(p)

Spec == Init /\ [][Next]_vars

\* The same program when every call is made only after the previous call has
\* returned (no two requests in flight).
SeqCheckIn(p, tid, ts) == Quiescent /\ CheckIn(p, tid, ts)
SeqCheckOut(p, tid, ts) == Quiescent /\ CheckOut(p, tid, ts)

SeqNext ==
  \/ Tick
  \/ \E tid \in TelegramIds : CreateOrUpdateUser(tid)
  \/ \E p \in Procs, tid \in TelegramIds, ts \in Instants : SeqCheckIn(p, tid, ts)
  \/ \E p \in Procs, tid \in TelegramIds, ts \in Instants : SeqCheckOut(p, tid, ts)
  \/ \E p \in Procs : CheckInValidate(p)
  \/ \E p \in Procs : CheckOutValidate(p)
  \/ \E p \in Procs : SaveEntry(p)
  \/ \E p \in Procs : FindOrCreateSession(p)
  \/ \E p \in Procs : RecomputeSession(p)
  \/ \E p \in Procs : SaveSession(p)
  \/ \E p \in Procs : Return(p)

SeqSpec == Init /\ [][SeqNext]_vars

\* ---------------------------------------------------------------- reports
\* Local dates are day numbers; day 0 is taken to be a Monday and the first
\* day of a month, and a month to have DaysPerMonth days.
DaysPerWeek == 7
DaysPerMonth == 30

\* startOf('isoWeek') / startOf('month') on a local date
StartOfWeekMutant(date) == date
StartOfWeek(date) == date - (date % DaysPerWeek)
StartOfMonth(date) == date - (date % DaysPerMonth)

\* a date argument that moment(s, 'YYYY-MM-DD', true) does not accept
Malformed == -1
IsValidDate(d) == d >= 0

\* x.toFixed(k) of a quotient a / b with b > 0, as an integer number of units
RoundDiv(a, b) ==
  IF a >= 0 THEN (2 * a + b) \div (2 * b)
            ELSE 0 - ((2 * (0 - a) + b) \div (2 * b))

\* asHours().toFixed(1), in tenths of an hour
Tenths(minutes) == RoundDiv(minutes * 10, 60)

\* session.checkIn || session.checkOut
HasActivity(w) == w.checkIn # {} \/ w.checkOut # {}

RECURSIVE InsertByDate(_, _)
InsertByDate(sorted, w) ==
  IF sorted = <<>> THEN <<w>>
  ELSE IF Head(sorted).date > w.date THEN <<w>> \o sorted
  ELSE <<Head(sorted)>> \o InsertByDate(Tail(sorted), w)

RECURSIVE SortByDate(_)
SortByDate(rows) ==
  IF rows = <<>> THEN <<>>
  ELSE InsertByDate(SortByDate(SubSeq(rows, 1, Len(rows) - 1)), rows[Len(rows)])

\* workSessionRepository.find({ where: { telegramId, date: Between(s, e) },
\*                              order: { date: 'ASC' } })
FindSessionsBetweenMutant(tid, s, e) ==
  SortByDate(SelectSeq(workSessions,
               LAMBDA w : w.telegramId = tid /\ w.date <= e))
FindSessionsBetween(tid, s, e) ==
  SortByDate(SelectSeq(workSessions,
               LAMBDA w : w.telegramId = tid /\ s <= w.date /\ w.date <= e))

\* the forEach accumulations over the rows that have a check-in or check-out
RECURSIVE SumHours(_)
SumHours(rows) ==
  IF rows = <<>> THEN 0
  ELSE (IF HasActivity(Head(rows)) THEN Head(rows).totalHours ELSE 0)
       + SumHours(Tail(rows))

WorkingDays(rows) == Len(SelectSeq(rows, HasActivity))
CompletedDays(rows) ==
  Len(SelectSeq(rows, LAMBDA w : HasActivity(w) /\ w.isComplete))

\* one line of a daily breakdown (weekly lines 117-130, range lines 321-331)
DayLine(rows, date) ==
  LET m == SelectSeq(rows, LAMBDA w : w.date = date)
  IN IF m # <<>> /\ HasActivity(m[1])
     THEN [date |-> date, active |-> TRUE,
           icon |-> IF m[1].isComplete THEN "complete"
                    ELSE IF m[1].checkIn # {} THEN "open" ELSE "none",
           hours |-> m[1].totalHours]
     ELSE [date |-> date, active |-> FALSE, icon |-> "none", hours |-> 0]

Breakdown(rows, start, n) == [i \in 1..n |-> DayLine(rows, start + i - 1)]

\* the "currently working for" value of an open day
Elapsed(w, clock) == {Tenths(clock - ci) : ci \in w.checkIn}

RECURSIVE SumLines(_)
SumLines(lines) ==
  IF lines = <<>> THEN 0 ELSE Head(lines).hours + SumLines(Tail(lines))

\* totalHours / workingDays, when workingDays > 0
AverageMutant(total, workingDays) ==
  {IF workingDays > 0 THEN RoundDiv(total, workingDays) ELSE 0}
Average(total, workingDays) ==
  IF workingDays > 0 THEN {RoundDiv(total, workingDays)} ELSE {}

\* getDailyReport lines 31-75 on the row found
DailyReportMutant(found, clock) ==
  IF found = {}
  THEN [kind |-> "NoActivity", totalHours |-> 0, status |-> "No activity recorded",
        checkIn |-> {}, checkOut |-> {}, working |-> {}]
  ELSE LET w == CHOOSE x \in found : TRUE
       IN [kind |-> "Report", totalHours |-> w.totalHours,
           status |-> IF w.isComplete THEN "Completed" ELSE "Incomplete",
           checkIn |-> w.checkIn, checkOut |-> w.checkOut,
           working |-> IF ~w.isComplete THEN Elapsed(w, clock) ELSE {}]
DailyReport(found, clock) ==
  IF found = {} \/ \A x \in found : ~HasActivity(x)
  THEN [kind |-> "NoActivity", totalHours |-> 0, status |-> "No activity recorded",
        checkIn |-> {}, checkOut |-> {}, working |-> {}]
  ELSE LET w == CHOOSE x \in found : TRUE
       IN [kind |-> "Report", totalHours |-> w.totalHours,
           status |-> IF w.isComplete THEN "Completed" ELSE "Incomplete",
           checkIn |-> w.checkIn, checkOut |-> w.checkOut,
           working |-> IF ~w.isComplete THEN Elapsed(w, clock) ELSE {}]

\* getTodayStatus lines 197-233 on the row found
TodayStatus(found, clock) ==
  IF found = {}
  THEN [kind |-> "NoActivity", totalHours |-> 0, status |-> "Not checked in",
        checkIn |-> {}, checkOut |-> {}, working |-> {}]
  ELSE LET w == CHOOSE x \in found : TRUE
           isCurrentlyWorking == w.checkIn # {} /\ w.checkOut = {}
       IN [kind |-> "Report", totalHours |-> w.totalHours,
           status |-> IF isCurrentlyWorking THEN "Currently working"
                      ELSE IF w.isComplete THEN "Completed" ELSE "Partially logged",
           checkIn |-> w.checkIn, checkOut |-> w.checkOut,
           working |-> IF isCurrentlyWorking THEN Elapsed(w, clock) ELSE {}]

\* getWeeklyReport lines 104-146 on the rows found
WeeklyReportMutant(rows, startOfWeek) ==
  IF rows = <<>>
  THEN [kind |-> "NoActivity", totalHours |-> 0, workingDays |-> 0,
        average |-> {}, breakdown |-> <<>>]
  ELSE LET lines == Breakdown(rows, startOfWeek, DaysPerWeek)
           workingDays == Len(rows)
       IN [kind |-> "Report", totalHours |-> SumLines(lines),
           workingDays |-> workingDays,
           average |-> Average(SumLines(lines), workingDays),
           breakdown |-> lines]
WeeklyReport(rows, startOfWeek) ==
  IF rows = <<>>
  THEN [kind |-> "NoActivity", totalHours |-> 0, workingDays |-> 0,
        average |-> {}, breakdown |-> <<>>]
  ELSE LET lines == Breakdown(rows, startOfWeek, DaysPerWeek)
           workingDays == Len(SelectSeq(lines, LAMBDA l : l.active))
       IN [kind |-> "Report", totalHours |-> SumLines(lines),
           workingDays |-> workingDays,
           average |-> Average(SumLines(lines), workingDays),
           breakdown |-> lines]

\* getMonthlyReport lines 198-208: the weekly breakdown, keyed by ISO week
RECURSIVE WeeklyBreakdown(_)
WeeklyBreakdown(rows) ==
  IF rows = <<>> THEN <<>>
  ELSE LET w == rows[Len(rows)]
           before == WeeklyBreakdown(SubSeq(rows, 1, Len(rows) - 1))
           key == StartOfWeek(w.date)
       IN IF ~HasActivity(w) THEN before
          ELSE IF \E k \in 1..Len(before) : before[k].week = key
          THEN [k \in 1..Len(before) |->
                  IF before[k].week = key
                  THEN [before[k] EXCEPT !.hours = @ + w.totalHours, !.days = @ + 1]
                  ELSE before[k]]
          ELSE Append(before, [week |-> key, hours |-> w.totalHours, days |-> 1])

\* Array.prototype.sort by totalHours descending (a stable sort)
RECURSIVE InsertByHoursDesc(_, _)
InsertByHoursDesc(sorted, w) ==
  IF sorted = <<>> THEN <<w>>
  ELSE IF Head(sorted).totalHours < w.totalHours THEN <<w>> \o sorted
  ELSE <<Head(sorted)>> \o InsertByHoursDesc(Tail(sorted), w)

RECURSIVE SortByHoursDesc(_)
SortByHoursDesc(rows) ==
  IF rows = <<>> THEN <<>>
  ELSE InsertByHoursDesc(SortByHoursDesc(SubSeq(rows, 1, Len(rows) - 1)),
                         rows[Len(rows)])

\* getMonthlyReport lines 176-246 on the rows found
MonthlyReport(rows) ==
  IF rows = <<>>
  THEN [kind |-> "NoActivity", totalHours |-> 0, workingDays |-> 0,
        completedDays |-> 0, average |-> {}, weeks |-> <<>>,
        best |-> {}, shortest |-> {}]
  ELSE LET sessionsWithHours ==
             SortByHoursDesc(SelectSeq(rows, LAMBDA w : w.totalHours > 0))
           n == Len(sessionsWithHours)
       IN [kind |-> "Report", totalHours |-> SumHours(rows),
           workingDays |-> WorkingDays(rows),
           completedDays |-> CompletedDays(rows),
           average |-> Average(SumHours(rows), WorkingDays(rows)),
           weeks |-> WeeklyBreakdown(rows),
           best |-> IF n > 0 THEN {sessionsWithHours[1].date} ELSE {},
           shortest |-> IF n > 1 THEN {sessionsWithHours[n].date} ELSE {}]

\* getRangeReport lines 260-270: validation of the two date arguments
RangeDecisionMutant(startDate, endDate) ==
  IF ~IsValidDate(startDate) \/ ~IsValidDate(endDate) THEN "InvalidDate"
  ELSE IF startDate >= endDate THEN "StartAfterEnd" ELSE "ok"
RangeDecision(startDate, endDate) ==
  IF ~IsValidDate(startDate) \/ ~IsValidDate(endDate) THEN "InvalidDate"
  ELSE IF startDate > endDate THEN "StartAfterEnd" ELSE "ok"

\* the longest range that gets a daily breakdown (line 318)
BreakdownLimit == 14

\* getRangeReport lines 283-335 on the rows found
RangeReportMutant(rows, startDate, endDate) ==
  IF rows = <<>>
  THEN [kind |-> "NoActivity", totalHours |-> 0, workingDays |-> 0,
        completedDays |-> 0, totalDays |-> endDate - startDate + 1,
        average |-> {}, efficiency |-> {}, breakdown |-> <<>>]
  ELSE LET totalDays == endDate - startDate + 1
           workingDays == WorkingDays(rows)
       IN [kind |-> "Report", totalHours |-> SumHours(rows),
           workingDays |-> workingDays,
           completedDays |-> CompletedDays(rows),
           totalDays |-> totalDays,
           average |-> Average(SumHours(rows), workingDays),
           efficiency |-> IF workingDays > 0
                          THEN {RoundDiv(workingDays * 1000, totalDays)} ELSE {},
           breakdown |-> IF totalDays < BreakdownLimit
                         THEN Breakdown(rows, startDate, totalDays) ELSE <<>>]
RangeReport(rows, startDate, endDate) ==
  IF rows = <<>>
  THEN [kind |-> "NoActivity", totalHours |-> 0, workingDays |-> 0,
        completedDays |-> 0, totalDays |-> endDate - startDate + 1,
        average |-> {}, efficiency |-> {}, breakdown |-> <<>>]
  ELSE LET totalDays == endDate - startDate + 1
           workingDays == WorkingDays(rows)
       IN [kind |-> "Report", totalHours |-> SumHours(rows),
           workingDays |-> workingDays,
           completedDays |-> CompletedDays(rows),
           totalDays |-> totalDays,
           average |-> Average(SumHours(rows), workingDays),
           efficiency |-> IF workingDays > 0
                          THEN {RoundDiv(workingDays * 1000, totalDays)} ELSE {},
           breakdown |-> IF totalDays <= BreakdownLimit
                         THEN Breakdown(rows, startDate, totalDays) ELSE <<>>]

\* ------------------------------------------------------- report requests
\* Telegram ids a request may carry; only those of TelegramIds ever /start.
CallerIds == TelegramIds \cup {2}

\* date arguments offered to getRangeReport
DateArgs == Days \cup {Malformed, BreakdownLimit - 1, BreakdownLimit}

\* optional date argument of getDailyReport / getMonthlyReport
OptionalDates == {{}} \cup {{d} : d \in Days}

\* moment.tz(user.timezone).format('YYYY-MM-DD')
Today(tid) ==
  IF users[tid] = {} THEN 0
  ELSE LocalDate(now, (CHOOSE u \in users[tid] : TRUE).timezone)

\* The head of a report up to its query (lines 21-26, 84-91, 155-163,
\* 255-270; getTodayStatus 187-192): the user lookup, the validation of the
\* arguments, the dates the query will ask for.
StartReport(p, kind, tid, startDate, endDate, decision) ==
  /\ pc[p] = "idle"
  /\ req' = [req EXCEPT ![p] =
       [kind |-> kind, telegramId |-> tid, timestamp |-> 0, openAtCall |-> FALSE,
        startDate |-> startDate, endDate |-> endDate]]
  /\ IF FindByTelegramId(tid) = {}
     THEN /\ pc' = [pc EXCEPT ![p] = "done"]
          /\ res' = [res EXCEPT ![p] = Result("UserNotFound")]
     ELSE IF decision # "ok"
     THEN /\ pc' = [pc EXCEPT ![p] = "done"]
          /\ res' = [res EXCEPT ![p] = Result(decision)]
     ELSE /\ pc' = [pc EXCEPT ![p] = "findSessions"]
          /\ res' = res
  /\ UNCHANGED <<users, timeEntries, workSessions, now, loc>>

\* The tail of a report: the rows arrive and the text is built.
FinishReportMutant(p, kind, report) ==
  /\ pc[p] = "findSessions" /\ req[p].kind = kind
  /\ pc' = [pc EXCEPT ![p] = "done"]
  /\ res' = [res EXCEPT ![p] = report]
  /\ workSessions' =
       [i \in 1..Len(workSessions) |->
          LET w == workSessions[i]
          IN IF w.telegramId = req[p].telegramId /\ w.checkIn # {} /\ w.checkOut = {}
             THEN [w EXCEPT !.totalHours = Hours(now - (CHOOSE t \in w.checkIn : TRUE))]
             ELSE w]
  /\ UNCHANGED <<users, timeEntries, now, req, loc>>
FinishReport(p, kind, report) ==
  /\ pc[p] = "findSessions" /\ req[p].kind = kind
  /\ pc' = [pc EXCEPT ![p] = "done"]
  /\ res' = [res EXCEPT ![p] = report]
  /\ UNCHANGED <<users, timeEntries, workSessions, now, req, loc>>

\* ReportService.getDailyReport(telegramId, date?)
GetDailyReport(p, tid, date) ==
  LET targetDate == IF date = {} THEN Today(tid) ELSE CHOOSE d \in date : TRUE
  IN /\ Quiescent
     /\ StartReport(p, "daily", tid, targetDate, targetDate, "ok")

DailyReportFound(p) ==
  /\ FinishReport(p, "daily",
       DailyReport(FindSession(req[p].telegramId, req[p].startDate), now))

\* TimeTrackingService.getTodayStatus(telegramId)
GetTodayStatus(p, tid) ==
  /\ Quiescent
  /\ StartReport(p, "status", tid, Today(tid), Today(tid), "ok")

TodayStatusFound(p) ==
  /\ FinishReport(p, "status",
       TodayStatus(FindSession(req[p].telegramId, req[p].startDate), now))

\* ReportService.getWeeklyReport(telegramId)
GetWeeklyReport(p, tid) ==
  /\ Quiescent
  /\ StartReport(p, "weekly", tid, StartOfWeek(Today(tid)),
                 StartOfWeek(Today(tid)) + DaysPerWeek - 1, "ok")

WeeklyReportFound(p) ==
  /\ FinishReport(p, "weekly",
       WeeklyReport(FindSessionsBetween(req[p].telegramId, req[p].startDate,
                                        req[p].endDate),
                    req[p].startDate))

\* ReportService.getMonthlyReport(telegramId, month?)
GetMonthlyReport(p, tid, month) ==
  LET target == IF month = {} THEN Today(tid) ELSE CHOOSE d \in month : TRUE
  IN /\ Quiescent
     /\ StartReport(p, "monthly", tid, StartOfMonth(target),
                    StartOfMonth(target) + DaysPerMonth - 1, "ok")

MonthlyReportFound(p) ==
  /\ FinishReport(p, "monthly",
       MonthlyReport(FindSessionsBetween(req[p].telegramId, req[p].startDate,
                                         req[p].endDate)))

\* ReportService.getRangeReport(telegramId, startDate, endDate)
GetRangeReport(p, tid, startDate, endDate) ==
  /\ Quiescent
  /\ StartReport(p, "range", tid, startDate, endDate,
                 RangeDecision(startDate, endDate))

RangeReportFound(p) ==
  /\ FinishReport(p, "range",
       RangeReport(FindSessionsBetween(req[p].telegramId, req[p].startDate,
                                       req[p].endDate),
                   req[p].startDate, req[p].endDate))

\* readings of the wall clock over all the days of the model
WallClock == {BuildInstant(d, o, DefaultTimezone) : d \in Days, o \in DayOffsets}

\* The wall clock advances, possibly into a later day.
TickDays ==
  /\ \E t \in WallClock : t > now /\ now' = t
  /\ UNCHANGED <<users, timeEntries, workSessions, pc, req, loc, res>>

\* The program with its reports: calls are made one at a time, through one
\* request slot, by registered and unregistered callers.
Slot == CHOOSE p \in Procs : TRUE

ReportInit ==
  /\ users = [t \in CallerIds |-> {}]
  /\ timeEntries = <<>>
  /\ workSessions = <<>>
  /\ now = BuildInstant(0, 0, DefaultTimezone)
  /\ pc = [p \in Procs |-> "idle"]
  /\ req = [p \in Procs |-> NoReq]
  /\ loc = [p \in Procs |-> NoLoc]
  /\ res = [p \in Procs |-> NoRes]

ReportNext ==
  \/ TickDays
  \/ \E tid \in TelegramIds : CreateOrUpdateUser(tid)
  \/ \E tid \in CallerIds, ts \in Instants : SeqCheckIn(Slot, tid, ts)
  \/ \E tid \in CallerIds, ts \in Instants : SeqCheckOut(Slot, tid, ts)
  \/ CheckInValidate(Slot)
  \/ CheckOutValidate(Slot)
  \/ SaveEntry(Slot)
  \/ FindOrCreateSession(Slot)
  \/ RecomputeSession(Slot)
  \/ SaveSession(Slot)
  \/ Return(Slot)
  \/ \E tid \in CallerIds, date \in OptionalDates : GetDailyReport(Slot, tid, date)
  \/ DailyReportFound(Slot)
  \/ \E tid \in CallerIds : GetTodayStatus(Slot, tid)
  \/ TodayStatusFound(Slot)
  \/ \E tid \in CallerIds : GetWeeklyReport(Slot, tid)
  \/ WeeklyReportFound(Slot)
  \/ \E tid \in CallerIds, month \in OptionalDates : GetMonthlyReport(Slot, tid, month)
  \/ MonthlyReportFound(Slot)
  \/ \E tid \in CallerIds, s \in DateArgs, e \in DateArgs :
       GetRangeReport(Slot, tid, s, e)
  \/ RangeReportFound(Slot)

ReportSpec == ReportInit /\ [][ReportNext]_vars

\* ------------------------------------------------------ storage failures
\* The catch block of checkIn / checkOut (lines 99-105, 176-182): whatever an
\* awaited repository call throws becomes the generic failure result.
CatchMutant(p) ==
  /\ pc' = [pc EXCEPT ![p] = "thrown"]
  /\ res' = res
  /\ loc' = [loc EXCEPT ![p] = NoLoc]
Catch(p) ==
  /\ pc' = [pc EXCEPT ![p] = "done"]
  /\ res' = [res EXCEPT ![p] = Result("Error")]
  /\ loc' = [loc EXCEPT ![p] = NoLoc]

\* positions of checkIn / checkOut at which a repository call is awaited
AwaitingStore == {"validate", "saveEntry", "findSession", "findEntries",
                  "saveSession"}

\* The repository call that request p awaits rejects (the store is down).
StorageFailure(p) ==
  /\ pc[p] \in AwaitingStore
  /\ Catch(p)
  /\ UNCHANGED <<users, timeEntries, workSessions, now, req>>

\* checkIn / checkOut is called and its user lookup (lines 36, 115) rejects.
LookupFailure(p, kind, tid, ts) ==
  /\ Quiescent /\ pc[p] = "idle"
  /\ req' = [req EXCEPT ![p] = [kind |-> kind, telegramId |-> tid,
                                timestamp |-> ts, openAtCall |-> FALSE]]
  /\ Catch(p)
  /\ UNCHANGED <<users, timeEntries, workSessions, now>>

\* The program over a store that can fail, calls made one at a time.
FailNext ==
  \/ Tick
  \/ \E tid \in TelegramIds : CreateOrUpdateUser(tid)
  \/ \E tid \in TelegramIds, ts \in Instants : SeqCheckIn(Slot, tid, ts)
  \/ \E tid \in TelegramIds, ts \in Instants : SeqCheckOut(Slot, tid, ts)
  \/ CheckInValidate(Slot)
  \/ CheckOutValidate(Slot)
  \/ SaveEntry(Slot)
  \/ FindOrCreateSession(Slot)
  \/ RecomputeSession(Slot)
  \/ SaveSession(Slot)
  \/ Return(Slot)
  \/ StorageFailure(Slot)
  \/ \E kind \in {CHECK_IN, CHECK_OUT}, tid \in TelegramIds, ts \in Instants :
       LookupFailure(Slot, kind, tid, ts)

FailSpec == Init /\ [][FailNext]_vars

\* ------------------------------------------------------------- two users
\* Two registered users, each with requests of their own in flight: the first
\* request slot carries the calls of one user, the second those of the other.
UserOf(p) == IF p = Slot THEN 1 ELSE 2

TwoUserInit ==
  /\ users = [t \in CallerIds |->
                {[telegramId |-> t, timezone |-> DefaultTimezone, isActive |-> TRUE]}]
  /\ timeEntries = <<>>
  /\ workSessions = <<>>
  /\ now = BuildInstant(0, 0, DefaultTimezone)
  /\ pc = [p \in Procs |-> "idle"]
  /\ req = [p \in Procs |-> NoReq]
  /\ loc = [p \in Procs |-> NoLoc]
  /\ res = [p \in Procs |-> NoRes]

TwoUserNext ==
  \/ Tick
  \/ \E p \in Procs, ts \in Instants : CheckIn(p, UserOf(p), ts)
  \/ \E p \in Procs, ts \in Instants : CheckOut(p, UserOf(p), ts)
  \/ \E p \in Procs : CheckInValidate(p)
  \/ \E p \in Procs : CheckOutValidate(p)
  \/ \E p \in Procs : SaveEntry(p)
  \/ \E p \in Procs : FindOrCreateSession(p)
  \/ \E p \in Procs : RecomputeSession(p)
  \/ \E p \in Procs : SaveSession(p)
  \/ \E p \in Procs : Return(p)

TwoUserSpec == TwoUserInit /\ [][TwoUserNext]_vars

\* ------------------------------------------------------------ the users
\* the name fields of a telegram user (username, first_name, last_name), ""
\* for an absent one, and the zones updateTimezone is given
Names == {"", "ali"}
Timezones == {DefaultTimezone, "UTC"}

\* the record of the last call of the user service, kept in the argument
\* record of the second request slot, which carries no request here
Observer == CHOOSE p \in Procs : p # Slot

UserCall(kind, tid) ==
  [kind |-> kind, telegramId |-> tid, timestamp |-> 0, openAtCall |-> FALSE]

\* UserService.createOrUpdateUser(telegramUser) with its name fields
UpsertUserMutant(tid, name) ==
  /\ users' = [users EXCEPT ![tid] =
                 {[telegramId |-> tid, name |-> name,
                   timezone |-> DefaultTimezone, isActive |-> TRUE]}]
  /\ req' = [req EXCEPT ![Observer] = UserCall("createOrUpdateUser", tid)]
  /\ UNCHANGED <<timeEntries, workSessions, now, pc, loc, res>>
UpsertUser(tid, name) ==
  /\ users' = [users EXCEPT ![tid] =
                 IF users[tid] = {}
                 THEN {[telegramId |-> tid, name |-> name,
                        timezone |-> DefaultTimezone, isActive |-> TRUE]}
                 ELSE {[u EXCEPT !.name = name] : u \in users[tid]}]
  /\ req' = [req EXCEPT ![Observer] = UserCall("createOrUpdateUser", tid)]
  /\ UNCHANGED <<timeEntries, workSessions, now, pc, loc, res>>

\* UserService.updateTimezone(telegramId, timezone); throws for an unknown user
UpdateTimezone(tid, tz) ==
  /\ users' = [users EXCEPT ![tid] = {[u EXCEPT !.timezone = tz] : u \in users[tid]}]
  /\ req' = [req EXCEPT ![Observer] = UserCall("updateTimezone", tid)]
  /\ UNCHANGED <<timeEntries, workSessions, now, pc, loc, res>>

\* UserService.deactivateUser(telegramId); throws for an unknown user
DeactivateUser(tid) ==
  /\ users' = [users EXCEPT ![tid] = {[u EXCEPT !.isActive = FALSE] : u \in users[tid]}]
  /\ req' = [req EXCEPT ![Observer] = UserCall("deactivateUser", tid)]
  /\ UNCHANGED <<timeEntries, workSessions, now, pc, loc, res>>

\* The user service alone, its calls made one at a time.
UserNext ==
  \/ \E tid \in CallerIds, name \in Names : UpsertUser(tid, name)
  \/ \E tid \in CallerIds, tz \in Timezones : UpdateTimezone(tid, tz)
  \/ \E tid \in CallerIds : DeactivateUser(tid)

UserSpec == ReportInit /\ [][UserNext]_vars

\* ---------------------------------------------------------- the scheduler
\* SchedulerService: the five cron jobs.  A job is run in the request slot:
\* req holds the job, the users getAllActiveUsers returned and those still
\* to visit; loc holds the message built for the current user; res holds the
\* messages delivered and the users visited.
Jobs == {"dailyReports", "weeklyReports", "monthlyReports",
         "checkoutReminders", "morningGreetings"}

\* the store the jobs run over: stores that sequences of checkIn / checkOut
\* calls made at day 0 00:00 leave behind
Event(tid, type, ts) == [telegramId |-> tid, type |-> type, timestamp |-> ts]

Midnight == BuildInstant(0, 0, DefaultTimezone)
Morning == BuildInstant(0, 540, DefaultTimezone)

Row(id, tid, checkIn, checkOut) ==
  [id |-> id, telegramId |-> tid, date |-> 0, checkIn |-> checkIn,
   checkOut |-> checkOut, totalHours |-> 0,
   isComplete |-> checkIn # {} /\ checkOut # {}]

Stores ==
  { \* no call
    [entries |-> <<>>, rows |-> <<>>],
    \* checkIn(1, 00:00)
    [entries |-> <<Event(1, CHECK_IN, Midnight)>>,
     rows |-> <<Row(1, 1, {Midnight}, {})>>],
    \* checkIn(1, 00:00), checkOut(1, 00:00)
    [entries |-> <<Event(1, CHECK_IN, Midnight), Event(1, CHECK_OUT, Midnight)>>,
     rows |-> <<Row(1, 1, {Midnight}, {Midnight})>>],
    \* checkIn(1, 09:00), checkOut(1, 09:00), checkIn(1, 00:00)
    [entries |-> <<Event(1, CHECK_IN, Morning), Event(1, CHECK_OUT, Morning),
                   Event(1, CHECK_IN, Midnight)>>,
     rows |-> <<Row(1, 1, {Midnight}, {})>>],
    \* checkIn(1, 00:00), checkIn(2, 00:00)
    [entries |-> <<Event(1, CHECK_IN, Midnight), Event(2, CHECK_IN, Midnight)>>,
     rows |-> <<Row(1, 1, {Midnight}, {}), Row(2, 2, {Midnight}, {})>> ] }

\* userRepository.find({ where: { isActive: true } }), in any order
ActiveUsers == {tid \in DOMAIN users : \E u \in users[tid] : u.isActive}

Orders(S) ==
  {q \in [1..Cardinality(S) -> S] : \A i, j \in 1..Cardinality(S) : q[i] = q[j] => i = j}

JobCall(job, found) ==
  [kind |-> job, telegramId |-> 0, timestamp |-> 0, openAtCall |-> FALSE,
   users |-> found, queue |-> found]

JobResult(kind) ==
  [kind |-> kind, totalHours |-> 0, sent |-> <<>>, processed |-> <<>>]

\* the catch blocks of ReportService (lines 76-79, 147-150, 247-250): the
\* text "An error occurred while generating the ... report"
ReportError ==
  [kind |-> "Error", totalHours |-> 0, status |-> "An error occurred",
   checkIn |-> {}, checkOut |-> {}, working |-> {}]

\* morning greetings carry no report
Greeting ==
  [kind |-> "Greeting", totalHours |-> 0, status |-> "Good morning",
   checkIn |-> {}, checkOut |-> {}, working |-> {}]

\* the text a job builds for one user; failed: the store rejected a query
\* of the report service
JobReport(job, tid, failed) ==
  IF job = "morningGreetings" THEN Greeting
  ELSE IF failed THEN ReportError
  ELSE IF FindByTelegramId(tid) = {} THEN Result("UserNotFound")
  ELSE IF job \in {"dailyReports", "checkoutReminders"}
  THEN DailyReport(FindSession(tid, Today(tid)), now)
  ELSE IF job = "weeklyReports"
  THEN WeeklyReport(FindSessionsBetween(tid, StartOfWeek(Today(tid)),
                                        StartOfWeek(Today(tid)) + DaysPerWeek - 1),
                    StartOfWeek(Today(tid)))
  ELSE MonthlyReport(FindSessionsBetween(tid, StartOfMonth(Today(tid)),
                                         StartOfMonth(Today(tid)) + DaysPerMonth - 1))

\* lines 198-201: /Currently working for: ([\d.]+) hours/ and parseFloat, in
\* tenths of an hour; a value printed with a minus sign does not match
ExtractWorkingHours(report) ==
  IF report.working = {} THEN 0
  ELSE LET e == CHOOSE x \in report.working : TRUE
       IN IF e >= 0 THEN e ELSE 0

\* 8 hours, in tenths
ReminderHours == 80

\* whether the job sends its text to the user (lines 36, 135-139)
Sends(job, report) ==
  CASE job = "dailyReports" -> report.kind # "NoActivity"
    [] job = "checkoutReminders" ->
         report.kind = "Report" /\ report.working # {}
         /\ ExtractWorkingHours(report) > ReminderHours
    [] OTHER -> TRUE

\* a job starts: getAllActiveUsers resolves
JobStart(job) ==
  /\ pc[Slot] = "idle"
  /\ \E found \in Orders(ActiveUsers) :
       req' = [req EXCEPT ![Slot] = JobCall(job, found)]
  /\ res' = [res EXCEPT ![Slot] = JobResult("JobRunning")]
  /\ pc' = [pc EXCEPT ![Slot] = "jobUser"]
  /\ UNCHANGED <<users, timeEntries, workSessions, now, loc>>

SendDailyReports == /\ JobStart("dailyReports")
SendWeeklyReports == /\ JobStart("weeklyReports")
SendMonthlyReports == /\ JobStart("monthlyReports")
SendCheckoutReminders == /\ JobStart("checkoutReminders")
SendMorningGreetings == /\ JobStart("morningGreetings")

\* getAllActiveUsers rejects: the outer catch logs and the job ends
JobLookupFailure(job) ==
  /\ pc[Slot] = "idle"
  /\ req' = [req EXCEPT ![Slot] = JobCall(job, <<>>)]
  /\ res' = [res EXCEPT ![Slot] = JobResult("JobFailed")]
  /\ pc' = [pc EXCEPT ![Slot] = "done"]
  /\ UNCHANGED <<users, timeEntries, workSessions, now, loc>>

\* the loop moves on to the next user; sent: what was delivered to this one
Advance(sent) ==
  /\ req' = [req EXCEPT ![Slot].queue = Tail(@)]
  /\ res' = [res EXCEPT ![Slot].processed = Append(@, Head(req[Slot].queue)),
                        ![Slot].sent = @ \o sent]

\* the loop body up to the send: the report of the user at the head
JobBuild(failed) ==
  /\ pc[Slot] = "jobUser" /\ req[Slot].queue # <<>>
  /\ failed => req[Slot].kind # "morningGreetings"
  /\ LET tid == Head(req[Slot].queue)
         report == JobReport(req[Slot].kind, tid, failed)
     IN IF Sends(req[Slot].kind, report)
        THEN /\ pc' = [pc EXCEPT ![Slot] = "jobSend"]
             /\ loc' = [loc EXCEPT ![Slot] =
                  [timezone |-> "", today |-> Today(tid), ws |-> {},
                   message |-> [telegramId |-> tid, job |-> req[Slot].kind,
                                date |-> Today(tid), report |-> report]]]
             /\ UNCHANGED <<req, res>>
        ELSE /\ pc' = pc /\ loc' = loc
             /\ Advance(<<>>)
  /\ UNCHANGED <<users, timeEntries, workSessions, now>>

\* sendMessageToUser lines 189-196: bot.telegram.sendMessage resolves
SendMessage ==
  /\ pc[Slot] = "jobSend"
  /\ pc' = [pc EXCEPT ![Slot] = "jobUser"]
  /\ loc' = [loc EXCEPT ![Slot] = NoLoc]
  /\ Advance(<<loc[Slot].message>>)
  /\ UNCHANGED <<users, timeEntries, workSessions, now>>

\* bot.telegram.sendMessage rejects: sendMessageToUser logs and returns
SendFailureMutant ==
  /\ pc[Slot] = "jobSend"
  /\ pc' = [pc EXCEPT ![Slot] = "done"]
  /\ loc' = [loc EXCEPT ![Slot] = NoLoc]
  /\ res' = [res EXCEPT ![Slot].kind = "JobDone"]
  /\ UNCHANGED <<users, timeEntries, workSessions, now, req>>
SendFailure ==
  /\ pc[Slot] = "jobSend"
  /\ pc' = [pc EXCEPT ![Slot] = "jobUser"]
  /\ loc' = [loc EXCEPT ![Slot] = NoLoc]
  /\ Advance(<<>>)
  /\ UNCHANGED <<users, timeEntries, workSessions, now>>

\* the loop is over: the job logs its completion and returns
JobEnd ==
  /\ pc[Slot] = "jobUser" /\ req[Slot].queue = <<>>
  /\ pc' = [pc EXCEPT ![Slot] = "done"]
  /\ res' = [res EXCEPT ![Slot].kind = "JobDone"]
  /\ UNCHANGED <<users, timeEntries, workSessions, now, req, loc>>

JobStep ==
  \/ \E failed \in BOOLEAN : JobBuild(failed)
  \/ SendMessage
  \/ SendFailure
  \/ JobEnd

\* The jobs over a store of registered users, who may be deactivated while
\* a job runs; the clock advances.
SchedInit ==
  /\ users = [t \in CallerIds |->
                {[telegramId |-> t, name |-> "", timezone |-> DefaultTimezone,
                  isActive |-> TRUE]}]
  /\ \E store \in Stores :
       /\ timeEntries = store.entries
       /\ workSessions = store.rows
  /\ now = Midnight
  /\ pc = [p \in Procs |-> "idle"]
  /\ req = [p \in Procs |-> NoReq]
  /\ loc = [p \in Procs |-> NoLoc]
  /\ res = [p \in Procs |-> NoRes]

SchedNext ==
  \/ TickDays
  \/ \E tid \in CallerIds : DeactivateUser(tid)
  \/ SendDailyReports
  \/ SendWeeklyReports
  \/ SendMonthlyReports
  \/ SendCheckoutReminders
  \/ SendMorningGreetings
  \/ \E job \in Jobs : JobLookupFailure(job)
  \/ JobStep
  \/ Return(Slot)

SchedSpec == SchedInit /\ [][SchedNext]_vars

\* every awaited promise of a running job settles
SchedFairSpec == SchedSpec /\ WF_vars(JobStep)

\* ------------------------------------------------ the conversational flows
\* TelegramService: the flows of one chat:user:thread key, whose updates are
\* handled one at a time.  The flow store entry of the key is kept in the
\* local record of the second request slot, the frame of the handler (the
\* update, its local flow object, the service call it makes) in the result
\* record of that slot; the service call itself runs in the first slot.
FlowNames == {"checkin_manual", "checkout_manual", "my_report_range",
              "user_report_range", "checkin_form", "checkout_form",
              "report_range_form"}

\* the sender of the updates, and the id String(undefined) stands for
Me == CHOOSE t \in TelegramIds : TRUE
UndefinedId == 0

\* lines 366, 384, 402, 418, 449, 469, 489: a new FlowState
NewFlow(name) ==
  [name |-> name, step |-> 1, date |-> {}, start |-> {}, targetId |-> {}]

NoFlow == [timezone |-> "", today |-> 0, ws |-> {}, flow |-> {}]

Frame(kind, update, flow, call, after) ==
  [kind |-> kind, totalHours |-> 0, update |-> update, flow |-> flow,
   call |-> call, after |-> after, result |-> "none"]

NoFrame == Frame("none", "none", {}, {}, "keep")

\* this.flows.get(key)
GetFlow == loc[Observer].flow

\* texts a message may carry; the dates are those of day 0 and day 1
DateTexts == [x \in {"2024-01-01", "2024-01-02"} |->
                IF x = "2024-01-01" THEN 0 ELSE 1]

Texts == DOMAIN DateTexts \cup
         {"today", "2024-13-01", "09:00", "9:00", "24:00", "2", "@ali", "@bob",
          "/cancel"}

\* moment(t, 'YYYY-MM-DD', true).isValid(), and the date when valid
StrictDate(text) ==
  IF text \in DOMAIN DateTexts THEN {DateTexts[text]} ELSE {}

\* lines 115-120: parseDateOrToday
ParseDateOrToday(text, tz) ==
  IF text = "today" THEN {LocalDate(now, tz)} ELSE StrictDate(text)

\* lines 122-126: parseHHmm, /^([01]?\d|2[0-3]):([0-5]\d)$/, as minute of day
ParseHHmm(text) ==
  CASE text = "09:00" -> {540}
    [] text = "9:00" -> {540}
    [] OTHER -> {}

\* lines 108-113: findByUsername (stored usernames carry no '@')
FindByUsername(uname) ==
  {u \in UNION {users[t] : t \in DOMAIN users} : u.name = uname /\ uname # ""}

\* lines 715-733: the user a text of step 1 of user_report_range names
ResolveTarget(text) ==
  IF text = "2" THEN {2}
  ELSE IF text = "@ali" THEN {u.telegramId : u \in FindByUsername("ali")}
  ELSE IF text = "@bob" THEN {u.telegramId : u \in FindByUsername("bob")}
  ELSE {}

\* me?.timezone ?? this.config.get('TIMEZONE') ?? 'Asia/Tehran'
MyZone ==
  IF users[Me] = {} THEN DefaultTimezone
  ELSE (CHOOSE u \in users[Me] : TRUE).timezone

\* no handler is running
Idle == res[Observer].kind # "handling" /\ pc[Slot] = "idle"

\* a handler ends without a service call, leaving the store entry as given
Reply(update, flow) ==
  /\ loc' = [loc EXCEPT ![Observer].flow = flow]
  /\ res' = [res EXCEPT ![Observer] = Frame("replied", update, {}, {}, "keep")]
  /\ UNCHANGED <<users, timeEntries, workSessions, now, pc, req>>

\* a handler reaches a service call with its local flow object f; after:
\* whether it removes the store entry once the call has returned
Invoke(update, stored, f, call, after) ==
  /\ loc' = [loc EXCEPT ![Observer].flow = stored]
  /\ res' = [res EXCEPT ![Observer] = Frame("handling", update, {f}, {call}, after)]
  /\ UNCHANGED <<users, timeEntries, workSessions, now, pc, req>>

Call(op, tid, ts, startDate, endDate) ==
  [op |-> op, telegramId |-> tid, timestamp |-> ts,
   startDate |-> startDate, endDate |-> endDate]

\* an argument read from a field of flow.data that may be undefined
DateArg(field) == IF field = {} THEN Malformed ELSE CHOOSE d \in field : TRUE
IdArg(field) == IF field = {} THEN UndefinedId ELSE CHOOSE t \in field : TRUE

\* lines 363-504: a menu button starts a flow
StartFlow(name) ==
  /\ Idle
  /\ Reply(name, {NewFlow(name)})

\* lines 520-553: cal_pick
CalPick(date) ==
  /\ Idle
  /\ IF GetFlow = {} THEN Reply("cal_pick", {})
     ELSE LET f == CHOOSE x \in GetFlow : TRUE IN
          IF f.name = "report_range_form" /\ f.step = 1
          THEN Reply("cal_pick", {[f EXCEPT !.start = {date}, !.step = 2]})
          ELSE IF f.name = "report_range_form" /\ f.step = 2
          THEN Invoke("cal_pick", {}, f,
                      Call("range", Me, 0, DateArg(f.start), date), "keep")
          ELSE Reply("cal_pick", {[f EXCEPT !.date = {date}, !.step = 2]})

\* lines 555-561 and 611-617: cal_cancel, time_cancel
CalCancel == /\ Idle /\ Reply("cal_cancel", {})
TimeCancel == /\ Idle /\ Reply("time_cancel", {})

\* lines 564-609: time_pick
TimePick(minuteOfDay) ==
  /\ Idle
  /\ IF GetFlow = {} THEN Reply("time_pick", {})
     ELSE LET f == CHOOSE x \in GetFlow : TRUE IN
          IF f.date = {} THEN Reply("time_pick", GetFlow)
          ELSE LET ts == BuildInstant(DateArg(f.date), minuteOfDay, MyZone) IN
               IF f.name = "checkin_form"
               THEN Invoke("time_pick", GetFlow, f, Call(CHECK_IN, Me, ts, 0, 0), "remove")
               ELSE IF f.name = "checkout_form"
               THEN Invoke("time_pick", GetFlow, f, Call(CHECK_OUT, Me, ts, 0, 0), "remove")
               ELSE Reply("time_pick", GetFlow)

\* a text that fails the validation of its step: the reply, the flow as stored
OnInvalidMutant(update) ==
  /\ loc' = [loc EXCEPT ![Observer].flow = {}]
  /\ res' = [res EXCEPT ![Observer] = Frame("refused", update, {}, {}, "keep")]
  /\ UNCHANGED <<users, timeEntries, workSessions, now, pc, req>>
OnInvalid(update) ==
  /\ loc' = loc
  /\ res' = [res EXCEPT ![Observer] = Frame("refused", update, {}, {}, "keep")]
  /\ UNCHANGED <<users, timeEntries, workSessions, now, pc, req>>

\* lines 637-691: checkin_manual / checkout_manual, op the service call
ManualText(update, f, op, text) ==
  IF f.step = 1
  THEN IF ParseDateOrToday(text, MyZone) = {} THEN OnInvalid(update)
       ELSE Reply(update, {[f EXCEPT !.date = ParseDateOrToday(text, MyZone),
                                     !.step = 2]})
  ELSE IF f.step = 2
  THEN IF ParseHHmm(text) = {} THEN OnInvalid(update)
       ELSE Invoke(update, GetFlow, f,
                   Call(op, Me,
                        BuildInstant(DateArg(f.date), DateArg(ParseHHmm(text)), MyZone),
                        0, 0),
                   "remove")
  ELSE Reply(update, GetFlow)

\* lines 693-711: my_report_range
MyRangeText(update, f, text) ==
  IF f.step = 1
  THEN IF StrictDate(text) = {} THEN OnInvalid(update)
       ELSE Reply(update, {[f EXCEPT !.start = StrictDate(text), !.step = 2]})
  ELSE IF f.step = 2
  THEN IF StrictDate(text) = {} THEN OnInvalid(update)
       ELSE Invoke(update, {}, f,
                   Call("range", Me, 0, DateArg(f.start), DateArg(StrictDate(text))),
                   "keep")
  ELSE Reply(update, GetFlow)

\* lines 713-764: user_report_range; replied: the sender of the message the
\* text replies to, if any
UserRangeText(update, f, text, replied) ==
  IF f.step = 1
  THEN LET targetId == IF replied # {} THEN replied ELSE ResolveTarget(text) IN
       IF targetId = {} THEN OnInvalid(update)
       ELSE Reply(update, {[f EXCEPT !.targetId = targetId, !.step = 2]})
  ELSE IF f.step = 2
  THEN IF StrictDate(text) = {} THEN OnInvalid(update)
       ELSE Reply(update, {[f EXCEPT !.start = StrictDate(text), !.step = 3]})
  ELSE IF f.step = 3
  THEN IF StrictDate(text) = {} THEN OnInvalid(update)
       ELSE Invoke(update, GetFlow, f,
                   Call("range", IdArg(f.targetId), 0, DateArg(f.start),
                        DateArg(StrictDate(text))),
                   "remove")
  ELSE Reply(update, GetFlow)

\* lines 628-770: bot.on('text'), registered before bot.command('cancel')
\* (lines 773-780): with a flow stored the text is taken as the input of the
\* flow's step and next() is not called; without one the update goes on to
\* the later handlers, where /cancel finds no flow.
Text(text, replied) ==
  LET update == IF text = "/cancel" THEN "/cancel" ELSE "text" IN
  /\ Idle
  /\ IF GetFlow = {} THEN Reply(update, {})
     ELSE LET f == CHOOSE x \in GetFlow : TRUE IN
          CASE f.name = "checkin_manual" -> ManualText(update, f, CHECK_IN, text)
            [] f.name = "checkout_manual" -> ManualText(update, f, CHECK_OUT, text)
            [] f.name = "my_report_range" -> MyRangeText(update, f, text)
            [] f.name = "user_report_range" -> UserRangeText(update, f, text, replied)
            [] OTHER -> Reply(update, GetFlow)

\* the handler is at its service call
AtCall(op) ==
  /\ res[Observer].kind = "handling" /\ pc[Slot] = "idle"
  /\ \E c \in res[Observer].call : c.op = op

TheCall == CHOOSE c \in res[Observer].call : TRUE

CallCheckIn ==
  /\ AtCall(CHECK_IN)
  /\ SeqCheckIn(Slot, TheCall.telegramId, TheCall.timestamp)

CallCheckOut ==
  /\ AtCall(CHECK_OUT)
  /\ SeqCheckOut(Slot, TheCall.telegramId, TheCall.timestamp)

CallRangeReport ==
  /\ AtCall("range")
  /\ GetRangeReport(Slot, TheCall.telegramId, TheCall.startDate, TheCall.endDate)

\* the service call has returned: the handler removes the flow if it does
\* so after the call (lines 585, 595, 655, 682, 761) and replies
Resume ==
  /\ res[Observer].kind = "handling" /\ pc[Slot] = "done"
  /\ loc' = [loc EXCEPT ![Observer].flow =
               IF res[Observer].after = "remove" THEN {} ELSE @]
  /\ res' = [res EXCEPT ![Observer].kind = "replied",
                        ![Observer].result = res[Slot].kind,
                        ![Slot] = NoRes]
  /\ pc' = [pc EXCEPT ![Slot] = "idle"]
  /\ req' = [req EXCEPT ![Slot] = NoReq]
  /\ UNCHANGED <<users, timeEntries, workSessions, now>>

\* /start of the sender and of a second user, who has a username
RegisterUser(tid, name) == /\ Idle /\ UpsertUser(tid, name)

\* times the time keyboard offers
PickTimes == {540, 1050}

Replied == {{}, {2}}

FlowInit ==
  /\ users = [t \in CallerIds \cup {UndefinedId} |-> {}]
  /\ timeEntries = <<>>
  /\ workSessions = <<>>
  /\ now = BuildInstant(0, 0, DefaultTimezone)
  /\ pc = [p \in Procs |-> "idle"]
  /\ req = [p \in Procs |-> NoReq]
  /\ loc = [p \in Procs |-> IF p = Observer THEN NoFlow ELSE NoLoc]
  /\ res = [p \in Procs |-> IF p = Observer THEN NoFrame ELSE NoRes]

FlowNext ==
  \/ RegisterUser(Me, "")
  \/ RegisterUser(2, "ali")
  \/ \E name \in FlowNames : StartFlow(name)
  \/ \E date \in Days : CalPick(date)
  \/ CalCancel
  \/ TimeCancel
  \/ \E t \in PickTimes : TimePick(t)
  \/ \E text \in Texts, replied \in Replied : Text(text, replied)
  \/ CallCheckIn
  \/ CallCheckOut
  \/ CallRangeReport
  \/ CheckInValidate(Slot)
  \/ CheckOutValidate(Slot)
  \/ SaveEntry(Slot)
  \/ FindOrCreateSession(Slot)
  \/ RecomputeSession(Slot)
  \/ SaveSession(Slot)
  \/ RangeReportFound(Slot)
  \/ Resume

FlowSpec == FlowInit /\ [][FlowNext]_vars

\* -------------------------------------------------------------- the webhook
\* TelegramController.webhook: the updates of the flows arrive by POST with
\* the x-telegram-bot-api-secret-token header.  The configured secret ("" when
\* TELEGRAM_WEBHOOK_SECRET is unset) is kept beside the flow store entry.
Secrets == {"", "s3cret"}
Tokens == {{}, {"s3cret"}, {"wrong"}}

Expected == loc[Observer].secret

\* line 17: expected && token !== expected (token: {} for a missing header)
ForbidsMutant(expected, token) == expected # "" /\ token # {} /\ token # {expected}
Forbids(expected, token) == expected # "" /\ token # {expected}

\* lines 18-19: the warning is logged and { status: 'forbidden' } returned
Forbidden ==
  /\ Idle
  /\ res' = [res EXCEPT ![Observer] = Frame("forbidden", "none", {}, {}, "keep")]
  /\ UNCHANGED <<users, timeEntries, workSessions, now, pc, req, loc>>

\* line 21: telegramService.handleUpdate(update), the handlers of the bot
HandleUpdate ==
  \/ \E name \in FlowNames : StartFlow(name)
  \/ \E date \in Days : CalPick(date)
  \/ CalCancel
  \/ TimeCancel
  \/ \E t \in PickTimes : TimePick(t)
  \/ \E text \in Texts, replied \in Replied : Text(text, replied)

\* lines 14-23: webhook(token, update)
Webhook(token) ==
  IF Forbids(Expected, token) THEN Forbidden ELSE HandleUpdate

WebhookInit ==
  /\ users = [t \in CallerIds \cup {UndefinedId} |-> {}]
  /\ timeEntries = <<>>
  /\ workSessions = <<>>
  /\ now = BuildInstant(0, 0, DefaultTimezone)
  /\ pc = [p \in Procs |-> "idle"]
  /\ req = [p \in Procs |-> NoReq]
  /\ \E secret \in Secrets :
       loc = [p \in Procs |->
                IF p = Observer
                THEN [timezone |-> "", today |-> 0, ws |-> {}, flow |-> {},
                      secret |-> secret]
                ELSE NoLoc]
  /\ res = [p \in Procs |-> IF p = Observer THEN NoFrame ELSE NoRes]

WebhookNext ==
  \/ RegisterUser(Me, "")
  \/ \E token \in Tokens : Webhook(token)
  \/ CallCheckIn
  \/ CallCheckOut
  \/ CallRangeReport
  \/ CheckInValidate(Slot)
  \/ CheckOutValidate(Slot)
  \/ SaveEntry(Slot)
  \/ FindOrCreateSession(Slot)
  \/ RecomputeSession(Slot)
  \/ SaveSession(Slot)
  \/ RangeReportFound(Slot)
  \/ Resume

WebhookSpec == WebhookInit /\ [][WebhookNext]_vars

\* ------------------------------------------------------------ properties
UserZone(tid) == (CHOOSE u \in users[tid] : TRUE).timezone

\* Request p leaves its validation step in this transition.
Validates(p, kind) ==
  pc[p] = "validate" /\ req[p].kind = kind /\ pc'[p] # "validate"

Rejected(p, kind) ==
  pc'[p] = "done" /\ res'[p].kind = kind /\ timeEntries' = timeEntries

\* C1: once a checkIn for a user at an instant of local day D has succeeded, a
\* checkIn of the same user at a later instant of D, with no event recorded in
\* between, is rejected as AlreadyCheckedIn and appends nothing to the ledger.
C1_SecondCheckInRejected ==
  [][\A p, q \in Procs :
       ( /\ p # q
         /\ pc[q] = "done" /\ res[q].kind = "Success" /\ req[q].kind = CHECK_IN
         /\ Validates(p, CHECK_IN)
         /\ req[p].telegramId = req[q].telegramId
         /\ req[p].timestamp > req[q].timestamp
         /\ LocalDate(req[q].timestamp, loc[p].timezone) = loc[p].today
         /\ timeEntries # <<>>
         /\ timeEntries[Len(timeEntries)] =
              [telegramId |-> req[q].telegramId, type |-> CHECK_IN,
               timestamp |-> req[q].timestamp] )
       => Rejected(p, "AlreadyCheckedIn")]_vars

\* C2: when the user's events of local day D hold strictly more check-ins than
\* check-outs, all at instants before t, checkOut at instant t of D passes the
\* validation, appends exactly one check-out event, and returns success with
\* the total hours of the recomputed aggregate of (user, D).
C2_CheckOutOfOpenDaySucceeds ==
  [][\A p \in Procs :
       /\ ( /\ Validates(p, CHECK_OUT)
            /\ HasOpenCheckIn(req[p].telegramId, loc[p].today, loc[p].timezone)
            /\ \A i \in 1..Len(timeEntries) :
                 timeEntries[i].timestamp < req[p].timestamp )
          => pc'[p] = "saveEntry"
       /\ ( pc[p] = "saveEntry" /\ req[p].kind = CHECK_OUT /\ pc'[p] # "saveEntry" )
          => timeEntries' = Append(timeEntries,
                 [telegramId |-> req[p].telegramId, type |-> CHECK_OUT,
                  timestamp |-> req[p].timestamp])
       /\ ( pc[p] = "saveSession" /\ req[p].kind = CHECK_OUT /\ pc'[p] = "done"
            /\ res'[p].kind = "Success" )
          => \E i \in 1..Len(workSessions') :
               /\ workSessions'[i].telegramId = req[p].telegramId
               /\ workSessions'[i].date = loc[p].today
               /\ workSessions'[i].totalHours = res'[p].totalHours]_vars

\* C3: a checkOut of a registered user at an instant whose local day holds no
\* check-in event of that user is rejected as NoOpenCheckIn and appends no
\* event.
C3_CheckOutWithoutCheckInRejected ==
  [][\A p \in Procs :
       ( /\ Validates(p, CHECK_OUT)
         /\ OfType(DayEntries(req[p].telegramId, loc[p].today, loc[p].timezone),
                   CHECK_IN) = <<>> )
       => Rejected(p, "NoOpenCheckIn")]_vars

\* a checkOut was rejected as NoOpenCheckIn on a day without any check-in,
\* while the ledger already holds events of another day
C3_Witness ==
  \E p \in Procs :
    /\ pc[p] = "done" /\ req[p].kind = CHECK_OUT
    /\ res[p].kind = "NoOpenCheckIn"
    /\ timeEntries # <<>>
    /\ OfType(DayEntries(req[p].telegramId,
                         LocalDate(req[p].timestamp, UserZone(req[p].telegramId)),
                         UserZone(req[p].telegramId)), CHECK_IN) = <<>>

\* C4: when the user's events of local day D hold at least one check-in and at
\* least as many check-outs as check-ins, a checkOut at an instant of D is
\* rejected as AlreadyCheckedOut (not NoOpenCheckIn) and appends no event.
C4_CheckOutOfClosedDayRejected ==
  [][\A p \in Procs :
       ( /\ Validates(p, CHECK_OUT)
         /\ LET day == DayEntries(req[p].telegramId, loc[p].today, loc[p].timezone)
            IN /\ Len(OfType(day, CHECK_IN)) >= 1
               /\ Len(OfType(day, CHECK_OUT)) >= Len(OfType(day, CHECK_IN)) )
       => Rejected(p, "AlreadyCheckedOut")]_vars

\* C5: in every state reached by checkIn and checkOut calls, the events of a
\* user in one local day, sorted by instant, alternate check_in, check_out,
\* check_in, ... beginning with a check_in.
C5_DayAlternates ==
  \A tid \in TelegramIds : \A d \in Days :
    users[tid] # {} => Alternates(SortedDay(tid, d, UserZone(tid)))

\* C6: of two checkIn requests of one user for one local day that were both
\* made while the day had no open check-in (and no check-out was recorded for
\* the day), exactly one succeeds and exactly one check-in event is appended.
C6_ConcurrentCheckInOneWins ==
  \A p, q \in Procs :
    ( /\ p # q
      /\ pc[p] = "done" /\ pc[q] = "done"
      /\ req[p].kind = CHECK_IN /\ req[q].kind = CHECK_IN
      /\ res[p].kind # "UserNotFound" /\ res[q].kind # "UserNotFound"
      /\ req[p].telegramId = req[q].telegramId
      /\ ~req[p].openAtCall /\ ~req[q].openAtCall
      /\ LET zone == UserZone(req[p].telegramId)
             d == LocalDate(req[p].timestamp, zone)
         IN /\ LocalDate(req[q].timestamp, zone) = d
            /\ OfType(DayEntries(req[p].telegramId, d, zone), CHECK_OUT) = <<>> )
    => /\ (res[p].kind = "Success") # (res[q].kind = "Success")
       /\ LET zone == UserZone(req[p].telegramId)
          IN Len(DayEntries(req[p].telegramId,
                            LocalDate(req[p].timestamp, zone), zone)) = 1

\* C7: in every reachable state, also under interleaved requests, the
\* work_sessions table holds at most one row per (telegramId, date).
C7_OneSessionPerUserAndDate ==
  \A i, j \in 1..Len(workSessions) :
    ( workSessions[i].telegramId = workSessions[j].telegramId
      /\ workSessions[i].date = workSessions[j].date ) => i = j

\* two interleaved requests both found no row and both tried to insert one:
\* the second insert was rejected
C7_Witness ==
  \E p \in Procs :
    /\ pc[p] = "done" /\ res[p].kind = "Error"
    /\ SessionIds(req[p].telegramId,
                  LocalDate(req[p].timestamp, UserZone(req[p].telegramId))) # {}

\* C8: when no call is in progress and the events of a local day alternate,
\* the stored totalHours of that day's aggregate is the sum of
\* (check_out - check_in) over the closed pairs of the day.
C8_TotalIsSumOfClosedPairs ==
  Quiescent =>
    \A i \in 1..Len(workSessions) :
      LET w == workSessions[i]
          sorted == SortedDay(w.telegramId, w.date, UserZone(w.telegramId))
      IN Alternates(sorted) => w.totalHours = ClosedPairHours(sorted)

\* C9: while the events of a local day are a single open check-in, the stored
\* totalHours of the day's aggregate is 0.00, whatever the clock shows.
C9_OpenCheckInCountsNothing ==
  Quiescent =>
    \A i \in 1..Len(workSessions) :
      LET w == workSessions[i]
          day == DayEntries(w.telegramId, w.date, UserZone(w.telegramId))
      IN (Len(day) = 1 /\ day[1].type = CHECK_IN) => w.totalHours = 0

\* C10: when a checkIn or checkOut returns success, the isComplete flag stored
\* for that day is true exactly if the chronologically last event of the day
\* is a check-out.
C10_CompleteIffLastIsCheckOut ==
  [][\A p \in Procs :
       ( pc[p] = "saveSession" /\ pc'[p] = "done" /\ res'[p].kind = "Success" )
       => \A i \in 1..Len(workSessions') :
            ( workSessions'[i].telegramId = req[p].telegramId
              /\ workSessions'[i].date = loc[p].today )
            => LET sorted == SortedDay(req[p].telegramId, loc[p].today,
                                       loc[p].timezone)
               IN workSessions'[i].isComplete =
                    (sorted # <<>> /\ sorted[Len(sorted)].type = CHECK_OUT)]_vars

\* The fields of an aggregate that updateWorkSession computes.
Fields(w) == <<w.checkIn, w.checkOut, w.totalHours, w.isComplete>>

\* The events updateWorkSession reads for the aggregate of (tid, date).
FoldedInto(tid, date) == FindEntries(tid, StartOfDay(date, UserZone(tid)))

IsIn(e, entries) == \E k \in 1..Len(entries) : entries[k] = e

\* C11: running updateWorkSession twice for one (user, date) on an unchanged
\* ledger gives identical checkIn, checkOut, totalHours and isComplete,
\* however far the clock advanced between the two runs.
C11_RecomputeIdempotent ==
  \A i \in 1..Len(workSessions) : \A c1, c2 \in ClockInstants :
    LET w == workSessions[i]
        entries == FoldedInto(w.telegramId, w.date)
        first == Recompute(w, entries, c1)
        second == Recompute(first, entries, c2)
    IN c1 <= c2 => Fields(first) = Fields(second)

\* C13: events are bucketed by their local calendar date: when no call is in
\* progress, two events of a user are folded into one aggregate exactly if
\* their instants have the same local date.
C13_BucketedByLocalDate ==
  Quiescent =>
    \A i, j \in 1..Len(timeEntries) : i # j =>
      LET a == timeEntries[i]
          b == timeEntries[j]
      IN a.telegramId = b.telegramId =>
           ( ( \E k \in 1..Len(workSessions) :
                 LET w == workSessions[k]
                 IN /\ w.telegramId = a.telegramId
                    /\ IsIn(a, FoldedInto(w.telegramId, w.date))
                    /\ IsIn(b, FoldedInto(w.telegramId, w.date)) )
             <=> LocalDate(a.timestamp, UserZone(a.telegramId)) =
                 LocalDate(b.timestamp, UserZone(a.telegramId)) )

Earliest(entries) ==
  IF entries = <<>> THEN {}
  ELSE {CHOOSE t \in {entries[k].timestamp : k \in 1..Len(entries)} :
          \A k \in 1..Len(entries) : t <= entries[k].timestamp}

Latest(entries) ==
  IF entries = <<>> THEN {}
  ELSE {CHOOSE t \in {entries[k].timestamp : k \in 1..Len(entries)} :
          \A k \in 1..Len(entries) : t >= entries[k].timestamp}

\* C14: when no call is in progress, the checkIn field of the aggregate of
\* (user, D) is the earliest check-in instant among the user's events of local
\* day D and its checkOut field the latest check-out instant among them, each
\* null when the day has no event of that kind.
C14_FirstCheckInLastCheckOut ==
  Quiescent =>
    \A i \in 1..Len(workSessions) :
      LET w == workSessions[i]
          day == DayEntries(w.telegramId, w.date, UserZone(w.telegramId))
      IN /\ w.checkIn = Earliest(OfType(day, CHECK_IN))
         /\ w.checkOut = Latest(OfType(day, CHECK_OUT))

\* C15: the aggregate is recomputed in full: when no call is in progress,
\* every stored field equals what the recomputation gives from a fresh row
\* and the events of the day alone, whatever the clock reading.
C15_RecomputedInFull ==
  Quiescent =>
    \A i \in 1..Len(workSessions) : \A c \in ClockInstants :
      LET w == workSessions[i]
      IN Fields(w) =
           Fields(Recompute(NewSession(w.telegramId, w.date),
                            FoldedInto(w.telegramId, w.date), c))

\* C16: the ledger is append-only and no aggregate row is ever deleted: every
\* step keeps the stored events as they are, in place, and keeps every
\* aggregate row under its (telegramId, date) key.
C16_AppendOnly ==
  [][ /\ Len(timeEntries') >= Len(timeEntries)
      /\ SubSeq(timeEntries', 1, Len(timeEntries)) = timeEntries
      /\ Len(workSessions') >= Len(workSessions)
      /\ \A i \in 1..Len(workSessions) :
           /\ workSessions'[i].telegramId = workSessions[i].telegramId
           /\ workSessions'[i].date = workSessions[i].date ]_vars

\* an event was inserted into a ledger that already held one, and an
\* aggregate row that existed was saved again
C16_Witness ==
  /\ Len(timeEntries) >= 2
  /\ \E p \in Procs : \E i \in 1..Len(workSessions) :
       /\ pc[p] = "done" /\ res[p].kind = "Success"
       /\ workSessions[i].telegramId = req[p].telegramId
       /\ i < Len(workSessions) \/ Len(timeEntries) > Len(workSessions)

\* C12: when a check-in at t1 has succeeded and a check-out at a later
\* instant t2 of the same local day has then been made, with no other event
\* on that day, the daily report for that day shows total hours (t2 - t1)
\* and status Completed.
C12_DailyReportOfWorkedDay ==
  \A p, q \in Procs : \A tid \in TelegramIds :
    ( /\ pc[p] = "done" /\ req[p].kind = CHECK_IN /\ res[p].kind = "Success"
      /\ pc[q] = "done" /\ req[q].kind = CHECK_OUT /\ req[q].openAtCall
      /\ req[p].telegramId = tid /\ req[q].telegramId = tid
      /\ req[q].timestamp > req[p].timestamp
      /\ LocalDate(req[p].timestamp, UserZone(tid)) =
         LocalDate(req[q].timestamp, UserZone(tid))
      /\ LET day == DayEntries(tid, LocalDate(req[p].timestamp, UserZone(tid)),
                               UserZone(tid))
         IN \A k \in 1..Len(day) :
              \/ day[k].type = CHECK_IN /\ day[k].timestamp = req[p].timestamp
              \/ day[k].type = CHECK_OUT /\ day[k].timestamp = req[q].timestamp )
    => LET d == LocalDate(req[p].timestamp, UserZone(tid))
           report == DailyReport(FindSession(tid, d), now)
       IN /\ report.totalHours = Hours(req[q].timestamp - req[p].timestamp)
          /\ report.status = "Completed"

\* the business-rule rejections of checkIn / checkOut
Rejections == {"AlreadyCheckedIn", "AlreadyCheckedOut", "NoOpenCheckIn"}

\* C17: checkIn and checkOut never throw: a call ends with a result value;
\* when a repository call fails the call ends at once with the generic
\* failure result, which is none of the business-rule rejections, and makes
\* no further store call; a business-rule rejection comes from the
\* validation step alone.
C17_FailuresAreResults ==
  [][ \A p \in Procs :
        /\ pc'[p] # "thrown"
        /\ ( \/ StorageFailure(p)
             \/ \E kind \in {CHECK_IN, CHECK_OUT}, tid \in TelegramIds,
                   ts \in Instants : LookupFailure(p, kind, tid, ts) )
           => /\ pc'[p] = "done"
              /\ res'[p].kind = "Error" /\ res'[p].kind \notin Rejections
              /\ timeEntries' = timeEntries /\ workSessions' = workSessions
        /\ (pc[p] # "done" /\ pc'[p] = "done" /\ res'[p].kind \in Rejections)
           => Validates(p, req[p].kind) ]_vars

\* a check-in failed after its event had been stored and before the
\* aggregate row was
C17_Witness ==
  \E p \in Procs :
    /\ pc[p] = "done" /\ res[p].kind = "Error"
    /\ req[p].kind = CHECK_IN
    /\ timeEntries # <<>> /\ workSessions = <<>>

\* A call is begun by the request slot in this step.
Begins(p) == pc[p] = "idle" /\ pc'[p] # "idle"

\* C18: a call of checkIn, checkOut, getTodayStatus or one of the four
\* reports for a telegramId that has no user record returns the
\* user-not-found result at once and leaves the ledger and the aggregates
\* unchanged.
C18_UnknownUserNotFound ==
  [][ \A p \in Procs :
        (Begins(p) /\ users[req'[p].telegramId] = {})
        => /\ pc'[p] = "done"
           /\ res'[p].kind = "UserNotFound"
           /\ timeEntries' = timeEntries
           /\ workSessions' = workSessions ]_vars

\* a report for an unregistered caller was answered while the ledger and the
\* aggregates held another user's rows
C18_Witness ==
  \E p \in Procs :
    /\ pc[p] = "done" /\ req[p].kind = "monthly"
    /\ users[req[p].telegramId] = {}
    /\ res[p].kind = "UserNotFound"
    /\ timeEntries # <<>> /\ workSessions # <<>>

\* C19: for a registered user and two well-formed dates, getRangeReport
\* returns the start-after-end failure exactly if start is after end, and it
\* returns it from the call itself, before any aggregate is read.
C19_StartAfterEndRejected ==
  [][ \A p \in Procs :
        ( /\ pc'[p] # pc[p] /\ req'[p].kind = "range"
          /\ users[req'[p].telegramId] # {}
          /\ IsValidDate(req'[p].startDate) /\ IsValidDate(req'[p].endDate) )
        => /\ (Begins(p) /\ req'[p].startDate > req'[p].endDate)
                => /\ pc'[p] = "done" /\ res'[p].kind = "StartAfterEnd"
           /\ (pc'[p] = "done" /\ res'[p].kind = "StartAfterEnd")
                => /\ Begins(p) /\ req'[p].startDate > req'[p].endDate ]_vars

\* a range with start after end was refused while aggregates existed
C19_Witness ==
  \E p \in Procs :
    /\ pc[p] = "done" /\ req[p].kind = "range"
    /\ req[p].startDate > req[p].endDate /\ IsValidDate(req[p].endDate)
    /\ res[p].kind = "StartAfterEnd"
    /\ workSessions # <<>>

\* what getDailyReport(tid, d) returns in the current state
DailyReportNow(tid, d) ==
  IF FindByTelegramId(tid) = {} THEN Result("UserNotFound")
  ELSE DailyReport(FindSession(tid, d), now)

\* C20: a finished getRangeReport(user, d, d) of a registered user agrees with
\* getDailyReport(user, d) on the same aggregates (no call can change them
\* while the result is held): the same total hours, the day counted as
\* completed exactly if the daily status is Completed, and the day counted as
\* a working day exactly if the daily report does not say no activity.
C20_SingleDayRangeIsDaily ==
  \A p \in Procs :
    ( /\ pc[p] = "done" /\ req[p].kind = "range"
      /\ IsValidDate(req[p].startDate) /\ req[p].startDate = req[p].endDate )
    => LET daily == DailyReportNow(req[p].telegramId, req[p].startDate)
       IN res[p].kind # "UserNotFound"
          => /\ daily.kind \in {"NoActivity", "Report"}
             /\ res[p].kind \in {"NoActivity", "Report"}
             /\ res[p].totalHours = daily.totalHours
             /\ (res[p].completedDays = 1) <=> (daily.status = "Completed")
             /\ (res[p].workingDays = 0) <=> (daily.kind = "NoActivity")

\* a one-day range report over a day with recorded activity
C20_Witness ==
  \E p \in Procs :
    /\ pc[p] = "done" /\ req[p].kind = "range"
    /\ req[p].startDate = req[p].endDate
    /\ res[p].kind = "Report" /\ res[p].workingDays = 1
    /\ res[p].totalHours > 0

\* the read-only operations
ReportKinds == {"daily", "status", "weekly", "monthly", "range"}

\* C21: no step of getDailyReport, getWeeklyReport, getMonthlyReport,
\* getRangeReport or getTodayStatus changes the users, the ledger or any
\* aggregate row; in particular the live elapsed value of an open day is
\* not written back.
C21_ReportsChangeNothing ==
  [][ \A p \in Procs :
        (pc'[p] # pc[p] /\ req'[p].kind \in ReportKinds)
        => /\ timeEntries' = timeEntries
           /\ workSessions' = workSessions
           /\ users' = users ]_vars

\* a daily report of an open day showed a live elapsed value that differs
\* from the stored total
C21_Witness ==
  \E p \in Procs :
    /\ pc[p] = "done" /\ req[p].kind = "daily" /\ res[p].kind = "Report"
    /\ \E e \in res[p].working : e * 10 # res[p].totalHours

\* the earliest date among the rows whose hours are the extreme ones
EarliestWithHours(rows, hours) ==
  {CHOOSE d \in {rows[k].date : k \in {j \in 1..Len(rows) : rows[j].totalHours = hours}} :
     \A k \in 1..Len(rows) : rows[k].totalHours = hours => d <= rows[k].date}

\* C22: in a finished monthly report the best day is the earliest date among
\* the days with the maximum hours, and the shortest day, reported when more
\* than one day has hours, is the earliest date among the days with the
\* minimum nonzero hours.
C22_MonthlyTiesEarliestWins ==
  \A p \in Procs :
    (pc[p] = "done" /\ req[p].kind = "monthly" /\ res[p].kind = "Report")
    => LET rows == SelectSeq(FindSessionsBetween(req[p].telegramId,
                                req[p].startDate, req[p].endDate),
                             LAMBDA w : w.totalHours > 0)
           all == {rows[k].totalHours : k \in 1..Len(rows)}
       IN /\ Len(rows) > 0 =>
               res[p].best =
                 EarliestWithHours(rows, CHOOSE h \in all : \A g \in all : g <= h)
          /\ Len(rows) > 1 =>
               res[p].shortest =
                 EarliestWithHours(rows, CHOOSE h \in all : \A g \in all : g >= h)

\* the breakdown has one line for each date of the range, in order
OneLinePerDate(breakdown, startDate, endDate) ==
  /\ Len(breakdown) = endDate - startDate + 1
  /\ \A i \in 1..Len(breakdown) : breakdown[i].date = startDate + i - 1

\* a range report that was answered from the aggregates
RangeAnswered(p) ==
  pc[p] = "done" /\ req[p].kind = "range" /\ res[p].kind \in {"NoActivity", "Report"}

\* C23 as stated: a finished range report of at most 14 days has one
\* breakdown line per date of the range, also when the range has no
\* aggregate; a longer one has no breakdown line but has the summary.
C23_BreakdownAlways ==
  \A p \in Procs :
    RangeAnswered(p)
    => IF req[p].endDate - req[p].startDate + 1 <= BreakdownLimit
       THEN OneLinePerDate(res[p].breakdown, req[p].startDate, req[p].endDate)
       ELSE res[p].breakdown = <<>> /\ res[p].kind = "Report"

\* C23 amended: when the range holds at least one aggregate row of the user,
\* the report has the summary, with one breakdown line per date of the range
\* if the range has at most 14 days and no breakdown line if it is longer;
\* when the range holds no row, the report is the no-activity text, without
\* breakdown or summary.
C23_BreakdownWhenRowsExist ==
  \A p \in Procs :
    RangeAnswered(p)
    => IF FindSessionsBetween(req[p].telegramId, req[p].startDate,
                              req[p].endDate) = <<>>
       THEN res[p].kind = "NoActivity" /\ res[p].breakdown = <<>>
       ELSE /\ res[p].kind = "Report"
            /\ IF req[p].endDate - req[p].startDate + 1 <= BreakdownLimit
               THEN OneLinePerDate(res[p].breakdown, req[p].startDate,
                                   req[p].endDate)
               ELSE res[p].breakdown = <<>>

\* a range of exactly 14 days with an aggregate row got its 14 lines
C23_Witness ==
  \E p \in Procs :
    /\ RangeAnswered(p) /\ res[p].kind = "Report"
    /\ req[p].endDate - req[p].startDate + 1 = BreakdownLimit
    /\ Len(res[p].breakdown) = BreakdownLimit

\* the aggregate rows a finished report was computed from
RowsOf(p) ==
  FindSessionsBetween(req[p].telegramId, req[p].startDate, req[p].endDate)

\* a weekly report that was answered from the aggregates
WeeklyAnswered(p) ==
  pc[p] = "done" /\ req[p].kind = "weekly" /\ res[p].kind \in {"NoActivity", "Report"}

\* C24: a finished weekly report of a week in which no aggregate row has a
\* check-in or a check-out shows total hours 0.00 and no average line, both
\* when the week has no row and when it has rows without any instant.
C24_EmptyWeek ==
  \A p \in Procs :
    ( /\ WeeklyAnswered(p)
      /\ \A k \in 1..Len(RowsOf(p)) : ~HasActivity(RowsOf(p)[k]) )
    => res[p].totalHours = 0 /\ res[p].average = {}

\* a weekly report over a week whose only row has neither instant
C24_Witness ==
  \E p \in Procs :
    /\ WeeklyAnswered(p) /\ res[p].kind = "Report"
    /\ RowsOf(p) # <<>>
    /\ \A k \in 1..Len(RowsOf(p)) : ~HasActivity(RowsOf(p)[k])

\* C25: in a finished weekly, monthly or range report the average line (and
\* the efficiency line of a range report) is present exactly if the number
\* of working days is greater than 0, and the number of days of an answered
\* range, the other denominator, is at least 1.
C25_AverageIffWorkingDays ==
  \A p \in Procs :
    ( /\ pc[p] = "done" /\ req[p].kind \in {"weekly", "monthly", "range"}
      /\ res[p].kind \in {"NoActivity", "Report"} )
    => /\ (res[p].average # {}) <=> (res[p].workingDays > 0)
       /\ req[p].kind = "range"
            => /\ (res[p].efficiency # {}) <=> (res[p].workingDays > 0)
               /\ res[p].totalDays >= 1

\* a monthly report with a summary and no working day, hence no average
C25_Witness ==
  \E p \in Procs :
    /\ pc[p] = "done" /\ req[p].kind = "monthly" /\ res[p].kind = "Report"
    /\ res[p].workingDays = 0 /\ res[p].average = {}

\* C26: in a finished range report the working-day count is at most the
\* number of calendar days of the range, and the efficiency, in tenths of a
\* percent, lies between 0 and 100 percent.
C26_EfficiencyWithinBounds ==
  \A p \in Procs :
    RangeAnswered(p)
    => /\ res[p].workingDays <= req[p].endDate - req[p].startDate + 1
       /\ res[p].totalDays = req[p].endDate - req[p].startDate + 1
       /\ \A e \in res[p].efficiency : 0 <= e /\ e <= 1000

\* a range report in which every day of the range is a working day
C26_Witness ==
  \E p \in Procs :
    /\ RangeAnswered(p) /\ res[p].efficiency = {1000}
    /\ res[p].workingDays = 2

\* the content of a weekly report that has its seven lines
SevenLines(p) ==
  /\ Len(res[p].breakdown) = DaysPerWeek
  /\ OneLinePerDate(res[p].breakdown, req[p].startDate, req[p].endDate)
  /\ res[p].totalHours = SumHours(RowsOf(p))
  /\ res[p].workingDays = WorkingDays(RowsOf(p))
  /\ res[p].workingDays <= DaysPerWeek

\* C27 as stated: every finished weekly report has exactly 7 per-day lines,
\* for the dates of the week asked for; its total is the sum of totalHours
\* over the week's aggregates that have a check-in or check-out and its
\* working-day count is the number of those aggregates, at most 7.
C27_WeeklyAlwaysSevenLines ==
  \A p \in Procs : WeeklyAnswered(p) => SevenLines(p)

\* C27 amended: the week asked for is Monday to Sunday of the ISO week that
\* contains now in the user's zone; when that week holds at least one
\* aggregate row of the user the report has exactly 7 per-day lines, the
\* total and the working-day count as stated; when it holds no row the report
\* is the no-activity text with total 0.00 and no per-day line.
C27_WeeklySevenLinesWhenRowsExist ==
  [][ \A p \in Procs :
        /\ (Begins(p) /\ req'[p].kind = "weekly" /\ pc'[p] = "findSessions")
           => /\ req'[p].startDate % DaysPerWeek = 0
              /\ req'[p].endDate = req'[p].startDate + DaysPerWeek - 1
              /\ req'[p].startDate <= LocalDate(now, UserZone(req'[p].telegramId))
              /\ LocalDate(now, UserZone(req'[p].telegramId)) <= req'[p].endDate
        /\ (pc[p] = "findSessions" /\ pc'[p] = "done" /\ req[p].kind = "weekly")
           => IF RowsOf(p) = <<>>
              THEN /\ res'[p].kind = "NoActivity" /\ res'[p].totalHours = 0
                   /\ res'[p].breakdown = <<>>
              ELSE /\ res'[p].kind = "Report"
                   /\ Len(res'[p].breakdown) = DaysPerWeek
                   /\ OneLinePerDate(res'[p].breakdown, req[p].startDate,
                                     req[p].endDate)
                   /\ res'[p].totalHours = SumHours(RowsOf(p))
                   /\ res'[p].workingDays = WorkingDays(RowsOf(p))
                   /\ res'[p].workingDays <= DaysPerWeek ]_vars

\* a weekly report asked on the Tuesday, with two working days on its lines
C27_Witness ==
  \E p \in Procs :
    /\ WeeklyAnswered(p) /\ res[p].kind = "Report"
    /\ Len(res[p].breakdown) = DaysPerWeek
    /\ res[p].workingDays = 2
    /\ LocalDate(now, UserZone(req[p].telegramId)) = 1

\* the rows of one user in a table
RowsOfUser(table, tid) == SelectSeq(table, LAMBDA x : x.telegramId = tid)

\* what the query for instant t returns on the user's own events alone
OwnFind(tid, t) ==
  SelectSeq(RowsOfUser(timeEntries, tid), LAMBDA e : e.timestamp = t)

\* C28: under any interleaving of the requests of two users, a step of a
\* checkIn or checkOut of user A leaves every ledger event and every
\* aggregate row of the other user as it was, and what it decides and
\* computes (the validation outcome, the recomputed aggregate) is what the
\* user's own events alone give.
C28_UsersIsolated ==
  [][ \A p \in Procs :
        pc'[p] # pc[p] =>
          LET a == IF pc[p] = "idle" THEN req'[p].telegramId ELSE req[p].telegramId
          IN /\ \A b \in CallerIds \ {a} :
                  /\ RowsOfUser(timeEntries', b) = RowsOfUser(timeEntries, b)
                  /\ RowsOfUser(workSessions', b) = RowsOfUser(workSessions, b)
             /\ Validates(p, CHECK_IN) =>
                  LET d == CheckInDecision(
                             OwnFind(a, StartOfDay(loc[p].today, loc[p].timezone)))
                  IN IF d = "ok" THEN pc'[p] = "saveEntry"
                     ELSE pc'[p] = "done" /\ res'[p].kind = d
             /\ Validates(p, CHECK_OUT) =>
                  LET d == CheckOutDecision(OwnFind(a, req[p].timestamp))
                  IN IF d = "ok" THEN pc'[p] = "saveEntry"
                     ELSE pc'[p] = "done" /\ res'[p].kind = d
             /\ pc[p] = "findSession" =>
                  \A w \in loc'[p].ws : w.telegramId = a
             /\ pc[p] = "findEntries" =>
                  loc'[p].ws =
                    {Recompute(w, OwnFind(a, StartOfDay(loc[p].today, loc[p].timezone)),
                               now) : w \in loc[p].ws} ]_vars

\* a check-in of one user succeeded although the other user's check-in at
\* the same instant was already in the ledger, and both have their aggregate
C28_Witness ==
  \E p, q \in Procs :
    /\ p # q /\ Len(timeEntries) = 2
    /\ pc[p] = "done" /\ req[p].kind = CHECK_IN /\ res[p].kind = "Success"
    /\ timeEntries[1] = [telegramId |-> UserOf(q), type |-> CHECK_IN,
                         timestamp |-> req[p].timestamp]
    /\ timeEntries[2].telegramId = UserOf(p)
    /\ Len(workSessions) = 2

\* C29: the stored totalHours of every aggregate row is non-negative.
C29_TotalHoursNonNegative ==
  \A i \in 1..Len(workSessions) : workSessions[i].totalHours >= 0

\* C30: an aggregate row of (user, date) exists only if the ledger holds an
\* event of that user whose local date is that date, and when a checkIn or
\* checkOut at instant t has returned success a row exists for (user, local
\* date of t).
C30_RowsFollowEvents ==
  /\ \A i \in 1..Len(workSessions) :
       LET w == workSessions[i]
       IN DayEntries(w.telegramId, w.date, UserZone(w.telegramId)) # <<>>
  /\ \A p \in Procs :
       (pc[p] = "done" /\ req[p].kind \in {CHECK_IN, CHECK_OUT}
        /\ res[p].kind = "Success")
       => SessionIds(req[p].telegramId,
                     LocalDate(req[p].timestamp, UserZone(req[p].telegramId))) # {}

\* successful calls on two local days left one aggregate row for each
C30_Witness ==
  /\ Len(workSessions) = 2
  /\ workSessions[1].date # workSessions[2].date
  /\ \E p \in Procs :
       /\ pc[p] = "done" /\ res[p].kind = "Success"
       /\ LocalDate(req[p].timestamp, UserZone(req[p].telegramId)) =
          workSessions[2].date

\* C31: no call of the user service removes a user record or leaves more
\* than one for a telegramId; a record is created with the zone Asia/Tehran
\* and isActive true; createOrUpdateUser on an existing user changes the name
\* fields only, and deactivateUser changes isActive only, to false.
C31_UsersSoftDeleted ==
  [][ \A tid \in CallerIds :
        /\ users[tid] # {} => users'[tid] # {}
        /\ Cardinality(users'[tid]) <= 1
        /\ (users[tid] = {} /\ users'[tid] # {})
           => \A u \in users'[tid] :
                u.telegramId = tid /\ u.timezone = DefaultTimezone /\ u.isActive
        /\ ((\E name \in Names : UpsertUser(tid, name)) /\ users[tid] # {})
           => \A u \in users[tid] : \A v \in users'[tid] :
                v.timezone = u.timezone /\ v.isActive = u.isActive
        /\ DeactivateUser(tid)
           => users'[tid] = {[u EXCEPT !.isActive = FALSE] : u \in users[tid]} ]_vars

\* createOrUpdateUser has just been called for a deactivated user in another
\* zone, who is still inactive
C31_Witness ==
  /\ req[Observer].kind = "createOrUpdateUser"
  /\ \E u \in users[req[Observer].telegramId] :
       ~u.isActive /\ u.timezone # DefaultTimezone /\ u.name = "ali"

\* positions of checkIn / checkOut after the event has been inserted
AfterInsert == {"findSession", "findEntries", "saveSession"}

\* C33: a checkIn or checkOut that returns success=false has not inserted its
\* event: a failure is returned only from a position before the insert.
C33_FailureLeavesLedger ==
  [][ \A p \in Procs :
        ( /\ pc[p] # "done" /\ pc'[p] = "done"
          /\ req'[p].kind \in {CHECK_IN, CHECK_OUT}
          /\ res'[p].kind # "Success" )
        => pc[p] \notin AfterInsert ]_vars

Sent == IF "sent" \in DOMAIN res[Slot] THEN res[Slot].sent ELSE <<>>

Delivered(job) == {Sent[k] : k \in {i \in 1..Len(Sent) : Sent[i].job = job}}

\* the user has a check_out event on the local date
CheckedOutOn(tid, date) ==
  \E k \in 1..Len(timeEntries) :
    /\ timeEntries[k].telegramId = tid /\ timeEntries[k].type = CHECK_OUT
    /\ LocalDate(timeEntries[k].timestamp, UserZone(tid)) = date

\* C32: a checkout reminder is delivered only to a user the run found
\* active, whose daily report for today carried the live line with more
\* than 8 hours, and who has no check-out event today.
C32_ReminderOnlyWhenOpen ==
  \A m \in Delivered("checkoutReminders") :
    /\ \E k \in 1..Len(req[Slot].users) : req[Slot].users[k] = m.telegramId
    /\ m.report.kind = "Report" /\ m.report.status = "Incomplete"
    /\ \E e \in m.report.working : e > ReminderHours
    /\ ~CheckedOutOn(m.telegramId, m.date)

\* the run of a job is in progress
Running == pc[Slot] \in {"jobUser", "jobSend"}

\* C35: while a job runs, the users visited followed by the users still to
\* visit are the users the run found active, whatever failed on the way; a
\* job ends only with all of them visited, and every run ends.
C35_RunVisitsEveryUser ==
  /\ [](Running => res[Slot].processed \o req[Slot].queue = req[Slot].users)
  /\ []((pc[Slot] = "done" /\ res[Slot].kind = "JobDone")
        => res[Slot].processed = req[Slot].users)
  /\ (Running ~> (pc[Slot] = "done" /\ res[Slot].kind = "JobDone"))

\* a run over two users has ended with both visited, the report of the
\* first having failed and nothing having been delivered to the second
C35_Witness ==
  /\ pc[Slot] = "done" /\ res[Slot].kind = "JobDone"
  /\ Len(res[Slot].processed) = 2
  /\ Len(Sent) = 1 /\ Sent[1].report.kind = "Error"
  /\ Sent[1].telegramId = res[Slot].processed[1]

\* C36: a scheduled message is delivered only to a user the run found
\* active, and a daily summary only when the user's daily report for today
\* shows recorded activity.
C36_OnlyActiveUsersWithActivity ==
  \A k \in 1..Len(Sent) :
    /\ \E i \in 1..Len(req[Slot].users) : req[Slot].users[i] = Sent[k].telegramId
    /\ Sent[k].job = "dailyReports" => Sent[k].report.kind = "Report"

\* the flow object of the running handler
HandlerFlow == CHOOSE f \in res[Observer].flow : TRUE

\* the running handler makes its service call in this step
Invokes(op) ==
  /\ res[Observer].kind = "handling"
  /\ pc[Slot] = "idle" /\ pc'[Slot] # "idle" /\ req'[Slot].kind = op

\* C37: when a flow handler invokes getRangeReport, its flow holds a start
\* date, and for user_report_range a target user id as well.
C37_RangeAfterEarlierSteps ==
  [][ Invokes("range")
      => /\ HandlerFlow.start # {}
         /\ HandlerFlow.name = "user_report_range" => HandlerFlow.targetId # {} ]_vars

\* C38: when a handler that invoked checkIn, checkOut or getRangeReport
\* finishes, no flow is stored for the key; and after /cancel, cal_cancel or
\* time_cancel has been handled no flow is stored either.
C38_FlowRemovedAtEnd ==
  [][ /\ (res[Observer].kind = "handling" /\ res'[Observer].kind = "replied")
         => loc'[Observer].flow = {}
      /\ ( \/ CalCancel \/ TimeCancel
           \/ \E replied \in Replied : Text("/cancel", replied) )
         => loc'[Observer].flow = {} ]_vars

\* the text fails the validation of the step the flow is at
FailsValidation(f, text, replied) ==
  \/ /\ f.name \in {"checkin_manual", "checkout_manual"}
     /\ \/ f.step = 1 /\ text # "today" /\ text \notin DOMAIN DateTexts
        \/ f.step = 2 /\ text \notin {"09:00", "9:00"}
  \/ /\ f.name = "my_report_range" /\ f.step \in {1, 2}
     /\ text \notin DOMAIN DateTexts
  \/ /\ f.name = "user_report_range"
     /\ \/ /\ f.step = 1 /\ replied = {} /\ text # "2"
           /\ ~(text = "@ali" /\ \E t \in DOMAIN users : \E u \in users[t] : u.name = "ali")
        \/ f.step \in {2, 3} /\ text \notin DOMAIN DateTexts

\* C39: a text that fails the validation of its flow step changes nothing
\* of the stored flow and leads to no service call; checkIn is invoked only
\* from a check-in flow and checkOut only from a check-out flow.
C39_InvalidTextChangesNothing ==
  [][ /\ \A text \in Texts, replied \in Replied :
           ( /\ Text(text, replied)
             /\ \E f \in GetFlow : FailsValidation(f, text, replied) )
           => /\ loc'[Observer].flow = loc[Observer].flow
              /\ res'[Observer].kind = "refused" /\ res'[Observer].call = {}
              /\ UNCHANGED <<users, timeEntries, workSessions, pc, req>>
      /\ Invokes(CHECK_IN) => HandlerFlow.name \in {"checkin_manual", "checkin_form"}
      /\ Invokes(CHECK_OUT) => HandlerFlow.name \in {"checkout_manual", "checkout_form"}
    ]_vars

\* a text has been refused at the second step of a check-out flow, which
\* is still stored with its date, after an earlier check-in flow made its call
C39_Witness ==
  /\ res[Observer].kind = "refused" /\ res[Observer].update = "text"
  /\ \E f \in GetFlow : f.name = "checkout_manual" /\ f.step = 2 /\ f.date # {}
  /\ Len(timeEntries) = 1 /\ timeEntries[1].type = CHECK_IN

\* C40: with a secret configured, an update whose header is missing or
\* differs from it reaches no handler and leaves users, ledger, aggregates,
\* requests and the stored flow as they were; an update whose header matches,
\* or any update when no secret is configured, is handled by the bot.
C40_WebhookSecretChecked ==
  [][ \A token \in Tokens :
        Webhook(token)
        => IF Expected # "" /\ token # {Expected}
           THEN /\ res'[Observer].kind = "forbidden"
                /\ UNCHANGED <<users, timeEntries, workSessions, pc, req, loc>>
           ELSE /\ res'[Observer].kind \in {"replied", "refused", "handling"}
                /\ HandleUpdate ]_vars

\* with a secret configured an update has been refused while a flow that an
\* earlier, accepted update started is stored
C40_Witness ==
  /\ Expected # "" /\ res[Observer].kind = "forbidden"
  /\ \E f \in GetFlow : f.step = 2

TypeOK ==
  /\ Len(timeEntries) <= MaxEntries
  /\ now \in WallClock
  /\ \A p \in Procs : pc[p] \in {"idle", "validate", "saveEntry", "findSession",
                                 "findEntries", "saveSession", "findSessions",
                                 "done"}
====
